---- MODULE Spec2Model ----
(***************************************************************************)
(* Model of the EdgeVision Nexus edge node (src/cv_edge/zed_app.py):       *)
(* the capture thread grab_loop, the camera (re)initialisation             *)
(* init_zed_camera, the MJPEG stream sessions generate_mjpeg, and the      *)
(* /metrics and /health request handlers, with the two synchronisation     *)
(* objects frame_cond (a Condition) and stream_lock (a Lock).              *)
(*                                                                         *)
(* Threads are interleaved one statement group at a time.  A thread that   *)
(* needs a lock can only step when the lock is free; Condition.wait puts   *)
(* the session in the wait set and releases the lock, notify_all moves     *)
(* every waiter to "woken", from where it must re-acquire the lock.        *)
(***************************************************************************)
EXTENDS Integers, FiniteSets, Sequences, TLC

\* ---------------------------------------------------------------- bounds
NumStreams == 2      \* /video_feed sessions (each runs once)
NumMetrics == 1      \* concurrent /metrics request handlers
NumHealth == 1       \* concurrent /health request handlers
MaxPublish == 2      \* successful grabs explored
BusFaults == 1       \* hardware faults injected while streams are observed
CameraFaults == 12   \* hardware faults injected while the camera is observed
MaxObjects == 2      \* detections in objects.object_list of one cycle
MaxRawLabel == 2     \* raw class identifiers 0..MaxRawLabel
NumGwReqs == 3            \* gateway requests in one run
MaxNow == 1               \* ticks of the gateway host's clock
MaxMinutes == 6           \* minutes the Tailscale client's clock runs
MaxTsDevices == 2         \* longest device list the Tailscale API returns

\* --------------------------------------------------- program constants
max_failures_before_reconnect == 10
SleepReconnectMs == 5000
SleepCooldownMs == 1000
SleepGrabFailMs == 100
SleepExceptionMs == 5000
SleepStreamingMs == 100
SleepIdleMs == 500
ConfidenceThreshold == 50   \* 0.5, confidences are in hundredths
cache_ttl == 5            \* timedelta(minutes=5), tailscale_client.py line 49

Streams == 1..NumStreams
MetricsReqs == 1..NumMetrics
HealthReqs == 1..NumHealth

\* Owners of a lock: nobody, the capture thread, a stream session, a handler.
NoOwner == <<"none", 0>>
GrabOwner == <<"grab_loop", 0>>
StreamOwner(s) == <<"stream", s>>
MetricsOwner(m) == <<"metrics", m>>

VARIABLES
    \* ---- program state (module globals of zed_app.py)
    camera,               \* "None" or "cam": the global camera handle
    opened,               \* camera.is_opened() of the current handle
    frame_cond,           \* owner of the Condition's lock
    frame_data,           \* [frame, counts, timestamp]
    active_streams,       \* subscriber count
    stream_lock,          \* owner of stream_lock
    \* ---- __main__
    main,                 \* "start", "thread", "serving", "exited"
    \* ---- init_zed_camera activation (called by __main__ or grab_loop)
    ipc,                  \* "none", "new", "open", "setup"
    \* ---- grab_loop locals and position
    gpc,
    consecutive_failures,
    sleep_ms,             \* duration of the sleep grab_loop is in, 0 if none
    cycle,                \* [frame, counts] built by the current cycle
    \* ---- generate_mjpeg sessions
    spc,                  \* position of each session
    local_frame,          \* each session's local_frame
    \* ---- /metrics handlers
    mpc,
    response,             \* the dict the handler returns
    \* ---- /health handlers
    hpc,
    health_status,        \* 0 while no response yet, else the HTTP status
    camera_ready,
    \* ---- history (not program state; what the claims speak about)
    published,            \* number of publishes so far
    fault_budget,         \* hardware faults the environment may still inject
    attaches,             \* per session: increments performed
    detaches,             \* per session: decrements performed
    attached_at,          \* per session: published when it attached
    wait_began,           \* per session: published when its wait began
    woken_by,             \* per session: publish whose notify_all woke it
    last_emitted,         \* per session: cycle of the frame it yielded last
    torn,                 \* a session read frame_data while its fields disagreed
    last_cam_op,          \* last grab_loop operation on the camera
    open_handles,         \* SDK handles currently open (opened, not closed)
    closes_since_open,    \* close() calls since the last open() attempt
    fail_run,             \* grab failures since the last success / open
    init_result,          \* "none", "ok", "fail": last init_zed_camera return
    fault,                \* record of the last threshold / exception event
    \* ---- detection counting of one capture cycle (grab_loop, lines 193-215)
    objects,              \* [is_new, object_list] as retrieve_objects filled it
    enum_ok,              \* sl.OBJECT_CLASS(raw_label) is available
    cnt_pc,               \* position in the counting code
    obj_i,                \* index of the next element of object_list
    counts,               \* the dict counts
    drawn,                \* per label: boxes drawn on frame_bgr by cv2.rectangle
    body,                 \* [status, json]: the /metrics response built from it
    \* ---- API gateway (src/api-gateway/gateway.py)
    devices,              \* the registry dict: device id -> entry
    now,                  \* datetime.now() of the gateway host
    gw_pc,                \* per request: position in its handler
    gw_args,              \* per request: [op, id, data, url] as received
    gw_found,             \* per register request: id was registered at line 115
    gw_resp,              \* per request: status code answered, 0 = none yet
    \* ---- Tailscale client (src/api-gateway/tailscale_client.py)
    device_cache,         \* self._device_cache: None or a list
    cache_time,           \* self._cache_time: None or a time in minutes
    utcnow,               \* datetime.utcnow() in minutes
    ts_last,              \* the last call: arguments, API use, return
    last_ok,              \* the last get_devices that the API answered
    \* ---- encrypted storage (src/api-gateway/storage.py)
    storage_file,         \* the credentials file: absent, or its JSON content
    st_last,              \* the last EncryptedStorage call: arguments and return
    last_config           \* the config of the last save_tailscale_config

progVars == <<camera, opened, frame_cond, frame_data, active_streams, stream_lock>>
mainVars == <<main, ipc>>
grabVars == <<gpc, consecutive_failures, sleep_ms, cycle>>
streamVars == <<spc, local_frame>>
metricsVars == <<mpc, response>>
healthVars == <<hpc, health_status, camera_ready>>
camHist == <<last_cam_op, open_handles, closes_since_open, fail_run, init_result, fault, fault_budget>>
busHist == <<published, attaches, detaches, attached_at, wait_began, woken_by, last_emitted, torn>>

countVars == <<objects, enum_ok, cnt_pc, obj_i, counts, drawn, body>>

\* The edge node's threads (zed_app.py) and everything beside them.
edgeVars == <<progVars, mainVars, grabVars, streamVars, metricsVars, healthVars, camHist, busHist>>
gatewayVars == <<devices, now, gw_pc, gw_args, gw_found, gw_resp>>
tailscaleVars == <<device_cache, cache_time, utcnow, ts_last, last_ok>>
storageVars == <<storage_file, st_last, last_config>>
auxVars == <<countVars, gatewayVars, tailscaleVars, storageVars>>

vars == <<edgeVars, auxVars>>

\* frame_data['frame']: None or the annotated image of a capture cycle.
NoFrame == [cycle |-> 0, img |-> FALSE]
\* frame_data['counts']: the dict of a cycle; ts_key is the cycle of the
\* value stored under the key 'timestamp' in that dict, -1 if no such key.
NoCounts == [cycle |-> 0, ts_key |-> -1]
NoFault == [kind |-> "none", cf |-> 0]

InitProgram ==
    /\ camera = "None"
    /\ opened = FALSE
    /\ frame_cond = NoOwner
    /\ frame_data = [frame |-> NoFrame, counts |-> NoCounts, timestamp |-> 0]
    /\ active_streams = 0
    /\ stream_lock = NoOwner
    /\ main = "start"
    /\ ipc = "none"
    /\ gpc = "idle"
    /\ consecutive_failures = 0
    /\ sleep_ms = 0
    /\ cycle = [frame |-> NoFrame, counts |-> NoCounts]
    /\ spc = [s \in Streams |-> "idle"]
    /\ local_frame = [s \in Streams |-> NoFrame]
    /\ mpc = [m \in MetricsReqs |-> "idle"]
    /\ response = [m \in MetricsReqs |-> [counts |-> -1, timestamp |-> -1]]
    /\ hpc = [h \in HealthReqs |-> "idle"]
    /\ health_status = [h \in HealthReqs |-> 0]
    /\ camera_ready = [h \in HealthReqs |-> FALSE]
    /\ published = 0
    /\ attaches = [s \in Streams |-> 0]
    /\ detaches = [s \in Streams |-> 0]
    /\ attached_at = [s \in Streams |-> 0]
    /\ wait_began = [s \in Streams |-> 0]
    /\ woken_by = [s \in Streams |-> 0]
    /\ last_emitted = [s \in Streams |-> 0]
    /\ torn = FALSE
    /\ last_cam_op = "none"
    /\ open_handles = 0
    /\ closes_since_open = 0
    /\ fail_run = 0
    /\ init_result = "none"
    /\ fault = NoFault

\* frame_data holds the frame, counts and timestamp of one publish.
FrameDataWhole ==
    /\ frame_data.frame.cycle = frame_data.counts.cycle
    /\ frame_data.counts.cycle = frame_data.timestamp

\* The positions of grab_loop inside a time.sleep that holds no lock
\* (lines 159, 260, 262, 276).
Sleeps == {"sleep_reconnect", "sleep_cooldown", "sleep_retry", "sleep_except"}

\* A hardware fault (an error status, an exception or a None image of an
\* SDK call) is injected only while the budget lasts.
Fault ==
    /\ fault_budget > 0
    /\ fault_budget' = fault_budget - 1

\* ------------------------------------------------------ init_zed_camera
\* (Variant: __main__ goes on to start the capture thread whatever
\* init_zed_camera returned.)
InitReturnAlwaysStarts(ok) ==
    /\ ipc' = "none"
    /\ init_result' = IF ok THEN "ok" ELSE "fail"
    /\ IF main = "start"
       THEN /\ main' = "thread"
            /\ gpc' = "top"
            /\ UNCHANGED <<consecutive_failures, sleep_ms>>
       ELSE /\ UNCHANGED main
            /\ IF ok
               THEN /\ consecutive_failures' = 0
                    /\ gpc' = "grab"
                    /\ UNCHANGED sleep_ms
               ELSE /\ gpc' = "sleep_reconnect"
                    /\ sleep_ms' = SleepReconnectMs
                    /\ UNCHANGED consecutive_failures

\* Return of init_zed_camera to its caller: __main__ (lines 456-462) exits
\* on False and otherwise starts the capture thread; grab_loop (lines
\* 157-164) sleeps 5 s and retries on False and otherwise resets its
\* failure counter and goes on to grab.
InitReturn(ok) ==
    /\ ipc' = "none"
    /\ init_result' = IF ok THEN "ok" ELSE "fail"
    /\ IF main = "start"
       THEN /\ main' = IF ok THEN "thread" ELSE "exited"
            /\ gpc' = IF ok THEN "top" ELSE "idle"
            /\ UNCHANGED <<consecutive_failures, sleep_ms>>
       ELSE /\ UNCHANGED main
            /\ IF ok
               THEN /\ consecutive_failures' = 0
                    /\ gpc' = "grab"
                    /\ UNCHANGED sleep_ms
               ELSE /\ gpc' = "sleep_reconnect"
                    /\ sleep_ms' = SleepReconnectMs
                    /\ UNCHANGED consecutive_failures

\* What init_zed_camera and __main__ never touch.
notInit == <<frame_cond, frame_data, active_streams, stream_lock, cycle,
             streamVars, metricsVars, healthVars, busHist, fault, auxVars>>

\* __main__ calls init_zed_camera first (line 456).
MainInit ==
    /\ main = "start"
    /\ ipc = "none"
    /\ ipc' = "new"
    /\ UNCHANGED <<camera, opened, main, gpc, consecutive_failures, sleep_ms, notInit>>
    /\ UNCHANGED <<last_cam_op, open_handles, closes_since_open, fail_run, init_result, fault_budget>>

\* camera = sl.Camera() (line 65): the global now names a fresh, unopened
\* handle; the constructor may also raise, which returns False (line 107).
InitNewCamera ==
    /\ ipc = "new"
    /\ \/ /\ camera' = "cam"
          /\ opened' = FALSE
          /\ ipc' = "open"
          /\ UNCHANGED <<main, gpc, consecutive_failures, sleep_ms, init_result, fault_budget>>
       \/ /\ Fault
          /\ InitReturn(FALSE)
          /\ UNCHANGED <<camera, opened>>
    /\ UNCHANGED <<last_cam_op, open_handles, closes_since_open, fail_run, notInit>>

\* camera.open(init_params) (lines 75-78): SUCCESS, an error status, or an
\* exception; the last two return False with the handle not opened.
InitOpen ==
    /\ ipc = "open"
    /\ last_cam_op' = "open"
    /\ closes_since_open' = 0
    /\ \/ /\ opened' = TRUE
          /\ open_handles' = open_handles + 1
          /\ fail_run' = 0
          /\ ipc' = "setup"
          /\ UNCHANGED <<main, gpc, consecutive_failures, sleep_ms, init_result, fault_budget>>
       \/ /\ Fault
          /\ InitReturn(FALSE)
          /\ UNCHANGED <<opened, open_handles, fail_run>>
    /\ UNCHANGED <<camera, notInit>>

\* Lines 80-101 on the opened camera: get_camera_information and
\* enable_positional_tracking (may raise), enable_object_detection (an
\* error status returns False, line 98).  No outcome closes the handle.
InitSetup ==
    /\ ipc = "setup"
    /\ \/ InitReturn(TRUE) /\ UNCHANGED fault_budget
       \/ Fault /\ InitReturn(FALSE)
    /\ UNCHANGED <<camera, opened, notInit>>
    /\ UNCHANGED <<last_cam_op, open_handles, closes_since_open, fail_run>>

\* Lines 461-470: the capture thread is running; after sleep(2) app.run
\* starts serving requests.
MainServe ==
    /\ main = "thread"
    /\ main' = "serving"
    /\ UNCHANGED <<camera, opened, ipc, gpc, consecutive_failures, sleep_ms, notInit>>
    /\ UNCHANGED <<last_cam_op, open_handles, closes_since_open, fail_run, init_result, fault_budget>>

\* ------------------------------------------------------------ grab_loop
\* What grab_loop never touches.
notGrab == <<main, local_frame, metricsVars, healthVars, init_result,
             attaches, detaches, attached_at, wait_began, last_emitted, torn, auxVars>>
busAll == <<frame_cond, frame_data, active_streams, stream_lock, cycle, spc, woken_by, published>>
camAll == <<camera, opened, last_cam_op, open_handles, closes_since_open>>

\* Line 155: `if not camera or not camera.is_opened()` -> reconnect through
\* init_zed_camera (line 157), else go on to camera.grab.
GrabCheckCamera ==
    /\ gpc = "top"
    /\ IF camera = "None" \/ ~opened
       THEN /\ gpc' = "init"
            /\ ipc' = "new"
       ELSE /\ gpc' = "grab"
            /\ UNCHANGED ipc
    /\ UNCHANGED <<consecutive_failures, sleep_ms, fail_run, fault, fault_budget>>
    /\ UNCHANGED <<camAll, busAll, notGrab>>

\* (Variant: the first failed grab already closes the camera.)
GrabFailedClosesAtOnce ==
    /\ consecutive_failures' = consecutive_failures + 1
    /\ gpc' = "threshold_close"
    /\ UNCHANGED sleep_ms

\* Lines 249-263: a grab that returned an error status.  The counter is
\* incremented; at the threshold the camera is going to be closed, else
\* sleep 0.1 s and continue.
GrabFailed ==
    /\ consecutive_failures' = consecutive_failures + 1
    /\ IF consecutive_failures + 1 >= max_failures_before_reconnect
       THEN /\ gpc' = "threshold_close"
            /\ UNCHANGED sleep_ms
       ELSE /\ gpc' = "sleep_retry"
            /\ sleep_ms' = SleepGrabFailMs

\* (Variant: the exception is handled like a failed grab.)
GrabRaisedCounted ==
    GrabFailed

\* An exception escaped the body of the loop to line 265: the handler goes
\* on to close the camera whatever the failure counter is, and leaves the
\* counter alone.
GrabRaised ==
    /\ gpc' = "except_close"
    /\ UNCHANGED <<consecutive_failures, sleep_ms>>

\* Lines 167-171: camera.grab(runtime_params): SUCCESS (counter reset),
\* an error status, or an exception.
GrabFrame ==
    /\ gpc = "grab"
    /\ last_cam_op' = "grab"
    /\ \/ /\ published < MaxPublish
          /\ consecutive_failures' = 0
          /\ fail_run' = 0
          /\ gpc' = "pace"
          /\ UNCHANGED <<sleep_ms, fault, fault_budget>>
       \/ /\ Fault
          /\ GrabFailed
          /\ fail_run' = fail_run + 1
          /\ UNCHANGED fault
       \/ /\ Fault
          /\ GrabRaised
          /\ fault' = [kind |-> "exception", cf |-> consecutive_failures]
          /\ UNCHANGED fail_run
    /\ UNCHANGED <<camera, opened, open_handles, closes_since_open, ipc>>
    /\ UNCHANGED <<busAll, notGrab>>

camHistAll == <<last_cam_op, open_handles, closes_since_open, fail_run, fault, fault_budget>>
busRest == <<spc, woken_by, published>>

\* (Variant: the two pacing intervals are exchanged.)
GrabPaceBeginSwapped ==
    /\ gpc = "pace"
    /\ stream_lock = NoOwner
    /\ stream_lock' = GrabOwner
    /\ sleep_ms' = IF active_streams > 0 THEN SleepIdleMs ELSE SleepStreamingMs
    /\ gpc' = "pacing"
    /\ UNCHANGED <<camera, opened, frame_cond, frame_data, active_streams, cycle>>
    /\ UNCHANGED <<ipc, consecutive_failures, busRest, camHistAll, notGrab>>

\* Lines 174-178: `with stream_lock:` read active_streams and sleep 0.1 s
\* or 0.5 s inside the with block.
GrabPaceBegin ==
    /\ gpc = "pace"
    /\ stream_lock = NoOwner
    /\ stream_lock' = GrabOwner
    /\ sleep_ms' = IF active_streams > 0 THEN SleepStreamingMs ELSE SleepIdleMs
    /\ gpc' = "pacing"
    /\ UNCHANGED <<camera, opened, frame_cond, frame_data, active_streams, cycle>>
    /\ UNCHANGED <<ipc, consecutive_failures, busRest, camHistAll, notGrab>>

\* (Variant: stream_lock is kept while the loop goes on to frame_cond.)
GrabPaceEndKeepsLock ==
    /\ gpc = "pacing"
    /\ sleep_ms' = 0
    /\ gpc' = "lock_frame"
    /\ UNCHANGED <<camera, opened, frame_cond, frame_data, active_streams, stream_lock, cycle>>
    /\ UNCHANGED <<ipc, consecutive_failures, busRest, camHistAll, notGrab>>

\* The pacing sleep ends and the with block releases stream_lock.
GrabPaceEnd ==
    /\ gpc = "pacing"
    /\ stream_lock' = NoOwner
    /\ sleep_ms' = 0
    /\ gpc' = "lock_frame"
    /\ UNCHANGED <<camera, opened, frame_cond, frame_data, active_streams, cycle>>
    /\ UNCHANGED <<ipc, consecutive_failures, busRest, camHistAll, notGrab>>

\* (Variant: the frame is built and stored without taking the lock.)
GrabLockFrameNoLock ==
    /\ gpc = "lock_frame"
    /\ gpc' = "retrieve"
    /\ UNCHANGED <<camera, opened, frame_cond, frame_data, active_streams, stream_lock, cycle>>
    /\ UNCHANGED <<ipc, consecutive_failures, sleep_ms, busRest, camHistAll, notGrab>>

\* Line 180: `with frame_cond:` acquires the condition's lock.
GrabLockFrame ==
    /\ gpc = "lock_frame"
    /\ frame_cond = NoOwner
    /\ frame_cond' = GrabOwner
    /\ gpc' = "retrieve"
    /\ UNCHANGED <<camera, opened, frame_data, active_streams, stream_lock, cycle>>
    /\ UNCHANGED <<ipc, consecutive_failures, sleep_ms, busRest, camHistAll, notGrab>>

\* What a cycle builds (lines 182-236): the frame (get_data may give None)
\* and the counts dict of this capture.
NewCycle(img) ==
    [frame |-> [cycle |-> published + 1, img |-> img],
     counts |-> [cycle |-> published + 1, ts_key |-> -1]]

\* Lines 182-236 under the lock: retrieve_image, get_data, retrieve_objects,
\* count and annotate.  Any of these may raise, which leaves the with block
\* (releasing the lock) for the handler at line 265.
GrabRetrieve ==
    /\ gpc = "retrieve"
    /\ last_cam_op' = "retrieve"
    /\ \/ /\ cycle' = NewCycle(TRUE)
          /\ gpc' = "write_frame"
          /\ UNCHANGED <<frame_cond, consecutive_failures, sleep_ms, fault, fault_budget>>
       \/ /\ Fault
          /\ cycle' = NewCycle(FALSE)
          /\ gpc' = "write_frame"
          /\ UNCHANGED <<frame_cond, consecutive_failures, sleep_ms, fault>>
       \/ /\ Fault
          /\ GrabRaised
          /\ fault' = [kind |-> "exception", cf |-> consecutive_failures]
          /\ frame_cond' = NoOwner
          /\ UNCHANGED cycle
    /\ UNCHANGED <<camera, opened, frame_data, active_streams, stream_lock>>
    /\ UNCHANGED <<ipc, busRest, open_handles, closes_since_open, fail_run, notGrab>>

\* Line 239: frame_data['frame'] = frame_bgr
GrabWriteFrame ==
    /\ gpc = "write_frame"
    /\ frame_data' = [frame_data EXCEPT !.frame = cycle.frame]
    /\ gpc' = "write_counts"
    /\ UNCHANGED <<camera, opened, frame_cond, active_streams, stream_lock, cycle>>
    /\ UNCHANGED <<ipc, consecutive_failures, sleep_ms, busRest, camHistAll, notGrab>>

\* (Variant: the stored counts dict is kept instead of being replaced.)
GrabWriteCountsKept ==
    /\ gpc = "write_counts"
    /\ gpc' = "write_timestamp"
    /\ UNCHANGED <<camera, opened, frame_cond, frame_data, active_streams, stream_lock, cycle>>
    /\ UNCHANGED <<ipc, consecutive_failures, sleep_ms, busRest, camHistAll, notGrab>>

\* Line 240: frame_data['counts'] = counts
GrabWriteCounts ==
    /\ gpc = "write_counts"
    /\ frame_data' = [frame_data EXCEPT !.counts = cycle.counts]
    /\ gpc' = "write_timestamp"
    /\ UNCHANGED <<camera, opened, frame_cond, active_streams, stream_lock, cycle>>
    /\ UNCHANGED <<ipc, consecutive_failures, sleep_ms, busRest, camHistAll, notGrab>>

\* Line 241: frame_data['timestamp'] = datetime.now().isoformat()
GrabWriteTimestamp ==
    /\ gpc = "write_timestamp"
    /\ frame_data' = [frame_data EXCEPT !.timestamp = cycle.counts.cycle]
    /\ gpc' = "notify"
    /\ UNCHANGED <<camera, opened, frame_cond, active_streams, stream_lock, cycle>>
    /\ UNCHANGED <<ipc, consecutive_failures, sleep_ms, busRest, camHistAll, notGrab>>

\* (Variant: notify() wakes one session of the wait set only.)
GrabNotifyOne ==
    /\ gpc = "notify"
    /\ published' = published + 1
    /\ LET waiting == {s \in Streams : spc[s] = "waiting"}
           one == IF waiting = {} THEN {} ELSE {CHOOSE s \in waiting : TRUE}
       IN  /\ spc' = [s \in Streams |-> IF s \in one THEN "woken" ELSE spc[s]]
           /\ woken_by' = [s \in Streams |-> IF s \in one THEN published + 1 ELSE woken_by[s]]
    /\ frame_cond' = NoOwner
    /\ gpc' = "top"
    /\ UNCHANGED <<camera, opened, frame_data, active_streams, stream_lock, cycle>>
    /\ UNCHANGED <<ipc, consecutive_failures, sleep_ms, camHistAll, notGrab>>

\* Line 242: frame_cond.notify_all() wakes every session in the wait set;
\* then the with block ends (line 246) and the lock is released.
GrabNotifyAll ==
    /\ gpc = "notify"
    /\ published' = published + 1
    /\ spc' = [s \in Streams |-> IF spc[s] = "waiting" THEN "woken" ELSE spc[s]]
    /\ woken_by' = [s \in Streams |-> IF spc[s] = "waiting" THEN published + 1 ELSE woken_by[s]]
    /\ frame_cond' = NoOwner
    /\ gpc' = "top"
    /\ UNCHANGED <<camera, opened, frame_data, active_streams, stream_lock, cycle>>
    /\ UNCHANGED <<ipc, consecutive_failures, sleep_ms, camHistAll, notGrab>>

\* (Variant: the handle is dropped without being closed.)
CloseCameraSkipped ==
    UNCHANGED <<opened, open_handles, closes_since_open, last_cam_op>>

\* `if camera: try: camera.close() except: pass` (lines 253-257, 270-274).
CloseCamera ==
    IF camera # "None"
    THEN /\ opened' = FALSE
         /\ open_handles' = IF opened THEN open_handles - 1 ELSE open_handles
         /\ closes_since_open' = closes_since_open + 1
         /\ last_cam_op' = "close"
    ELSE UNCHANGED <<opened, open_handles, closes_since_open, last_cam_op>>

\* Lines 251-257: the threshold was reached: close the camera.
GrabThresholdClose ==
    /\ gpc = "threshold_close"
    /\ CloseCamera
    /\ fault' = [kind |-> "threshold", cf |-> consecutive_failures]
    /\ gpc' = "threshold_clear"
    /\ UNCHANGED <<camera, ipc, consecutive_failures, sleep_ms, fail_run, fault_budget>>
    /\ UNCHANGED <<busAll, notGrab>>

\* (Variant: the counter is kept when the camera is dropped.)
GrabThresholdClearKeepsCount ==
    /\ gpc = "threshold_clear"
    /\ camera' = "None"
    /\ fail_run' = 0
    /\ sleep_ms' = SleepCooldownMs
    /\ gpc' = "sleep_cooldown"
    /\ UNCHANGED <<opened, last_cam_op, open_handles, closes_since_open, ipc, fault, fault_budget>>
    /\ UNCHANGED <<consecutive_failures, busAll, notGrab>>

\* Lines 258-261: camera = None, counter reset, sleep 1 s, continue.
GrabThresholdClear ==
    /\ gpc = "threshold_clear"
    /\ camera' = "None"
    /\ consecutive_failures' = 0
    /\ fail_run' = 0
    /\ sleep_ms' = SleepCooldownMs
    /\ gpc' = "sleep_cooldown"
    /\ UNCHANGED <<opened, last_cam_op, open_handles, closes_since_open, ipc, fault, fault_budget>>
    /\ UNCHANGED <<busAll, notGrab>>

\* Lines 270-274: the exception handler closes the camera.
GrabExceptClose ==
    /\ gpc = "except_close"
    /\ CloseCamera
    /\ gpc' = "except_clear"
    /\ UNCHANGED <<camera, ipc, consecutive_failures, sleep_ms, fail_run, fault, fault_budget>>
    /\ UNCHANGED <<busAll, notGrab>>

\* (Variant: the handler lets the exception go and the thread ends.)
GrabExceptClearThreadEnds ==
    /\ gpc = "except_clear"
    /\ camera' = "None"
    /\ gpc' = "idle"
    /\ UNCHANGED <<opened, last_cam_op, open_handles, closes_since_open, ipc, sleep_ms>>
    /\ UNCHANGED <<consecutive_failures, fail_run, fault, fault_budget>>
    /\ UNCHANGED <<busAll, notGrab>>

\* Lines 275-276: camera = None, sleep 5 s, next iteration.
GrabExceptClear ==
    /\ gpc = "except_clear"
    /\ camera' = "None"
    /\ sleep_ms' = SleepExceptionMs
    /\ gpc' = "sleep_except"
    /\ UNCHANGED <<opened, last_cam_op, open_handles, closes_since_open, ipc>>
    /\ UNCHANGED <<consecutive_failures, fail_run, fault, fault_budget>>
    /\ UNCHANGED <<busAll, notGrab>>

\* (Variant: the end of a failure sleep wakes the waiting sessions.)
GrabSleepEndNotifies ==
    /\ gpc \in Sleeps
    /\ sleep_ms' = 0
    /\ fault' = NoFault
    /\ gpc' = "top"
    /\ spc' = [s \in Streams |-> IF spc[s] = "waiting" THEN "woken" ELSE spc[s]]
    /\ UNCHANGED <<camAll, ipc, consecutive_failures, fail_run, fault_budget>>
    /\ UNCHANGED <<frame_cond, frame_data, active_streams, stream_lock, cycle, woken_by, published>>
    /\ UNCHANGED notGrab

\* A time.sleep outside the locks (lines 159, 260, 262, 276) ends and the
\* loop starts its next iteration.
GrabSleepEnd ==
    /\ gpc \in Sleeps
    /\ sleep_ms' = 0
    /\ fault' = NoFault
    /\ gpc' = "top"
    /\ UNCHANGED <<camAll, ipc, consecutive_failures, fail_run, fault_budget>>
    /\ UNCHANGED <<busAll, notGrab>>

\* The steps of grab_loop that can occur with fewer hardware faults than
\* max_failures_before_reconnect.
GrabLoopFewFaults ==
    \/ GrabCheckCamera
    \/ GrabFrame
    \/ GrabPaceBegin
    \/ GrabPaceEnd
    \/ GrabLockFrame
    \/ GrabRetrieve
    \/ GrabWriteFrame
    \/ GrabWriteCounts
    \/ GrabWriteTimestamp
    \/ GrabNotifyAll
    \/ GrabExceptClose
    \/ GrabExceptClear
    \/ GrabSleepEnd

GrabLoop ==
    \/ GrabLoopFewFaults
    \/ GrabThresholdClose
    \/ GrabThresholdClear

\* ------------------------------------------------------- generate_mjpeg
\* What a stream session never touches.
notStream == <<camera, opened, frame_cond, frame_data, stream_lock, mainVars, grabVars,
               metricsVars, healthVars, camHist, published, auxVars>>

\* (Variant: the increment is lost.)
StreamAttachLost(s) ==
    /\ main = "serving"
    /\ spc[s] = "idle"
    /\ stream_lock = NoOwner
    /\ attaches' = [attaches EXCEPT ![s] = @ + 1]
    /\ attached_at' = [attached_at EXCEPT ![s] = published]
    /\ spc' = [spc EXCEPT ![s] = "loop"]
    /\ UNCHANGED <<active_streams, local_frame, notStream>>
    /\ UNCHANGED <<detaches, wait_began, woken_by, last_emitted, torn>>

\* Lines 308-310: the first next() on the generator runs
\* `with stream_lock: active_streams += 1`; the lock is taken and released
\* within the step, so the step needs the lock to be free.
StreamAttach(s) ==
    /\ main = "serving"
    /\ spc[s] = "idle"
    /\ stream_lock = NoOwner
    /\ active_streams' = active_streams + 1
    /\ attaches' = [attaches EXCEPT ![s] = @ + 1]
    /\ attached_at' = [attached_at EXCEPT ![s] = published]
    /\ spc' = [spc EXCEPT ![s] = "loop"]
    /\ UNCHANGED <<local_frame, notStream>>
    /\ UNCHANGED <<detaches, wait_began, woken_by, last_emitted, torn>>

\* (Variant: the wait is skipped and the stored frame is taken as it is.)
StreamWaitSkipped(s) ==
    /\ spc[s] = "loop"
    /\ frame_cond = NoOwner
    /\ local_frame' = [local_frame EXCEPT ![s] = NoFrame]
    /\ wait_began' = [wait_began EXCEPT ![s] = published]
    /\ spc' = [spc EXCEPT ![s] = "woken"]
    /\ UNCHANGED <<active_streams, notStream>>
    /\ UNCHANGED <<attaches, detaches, attached_at, woken_by, last_emitted, torn>>

\* Lines 315-318: local_frame = None; `with frame_cond:` acquires the lock
\* and frame_cond.wait() releases it and joins the wait set.
StreamWait(s) ==
    /\ spc[s] = "loop"
    /\ frame_cond = NoOwner
    /\ local_frame' = [local_frame EXCEPT ![s] = NoFrame]
    /\ wait_began' = [wait_began EXCEPT ![s] = published]
    /\ spc' = [spc EXCEPT ![s] = "waiting"]
    /\ UNCHANGED <<active_streams, notStream>>
    /\ UNCHANGED <<attaches, detaches, attached_at, woken_by, last_emitted, torn>>

\* (Variant: the frame is read and the lock is kept while encoding.)
StreamWakeKeepLock(s) ==
    /\ spc[s] = "woken"
    /\ frame_cond = NoOwner
    /\ frame_cond' = StreamOwner(s)
    /\ local_frame' = [local_frame EXCEPT ![s] = frame_data.frame]
    /\ torn' = (torn \/ ~FrameDataWhole)
    /\ spc' = [spc EXCEPT ![s] = "encode"]
    /\ UNCHANGED <<camera, opened, frame_data, stream_lock, mainVars, grabVars>>
    /\ UNCHANGED <<metricsVars, healthVars, camHist, published, active_streams, auxVars>>
    /\ UNCHANGED <<attaches, detaches, attached_at, wait_began, woken_by, last_emitted>>

\* Lines 318-319: a notified session re-acquires the lock inside wait(),
\* reads frame_data['frame'] and leaves the with block, releasing the lock.
StreamWake(s) ==
    /\ spc[s] = "woken"
    /\ frame_cond = NoOwner
    /\ local_frame' = [local_frame EXCEPT ![s] = frame_data.frame]
    /\ torn' = (torn \/ ~FrameDataWhole)
    /\ spc' = [spc EXCEPT ![s] = "encode"]
    /\ UNCHANGED <<active_streams, notStream>>
    /\ UNCHANGED <<attaches, detaches, attached_at, wait_began, woken_by, last_emitted>>

\* Lines 321-336, outside the lock: skip a None frame; cv2.imencode returns
\* ret (False skips the frame) or raises, which the handler at line 333
\* answers with sleep 0.1 s and break, leaving for `finally`; on success the
\* chunk is yielded and the generator is suspended.
StreamEncode(s) ==
    /\ spc[s] = "encode"
    /\ IF ~local_frame[s].img
       THEN /\ spc' = [spc EXCEPT ![s] = "loop"]
            /\ UNCHANGED last_emitted
       ELSE \/ /\ spc' = [spc EXCEPT ![s] = "yield"]
               /\ last_emitted' = [last_emitted EXCEPT ![s] = local_frame[s].cycle]
            \/ /\ spc' = [spc EXCEPT ![s] = "loop"]
               /\ UNCHANGED last_emitted
            \/ /\ spc' = [spc EXCEPT ![s] = "finally"]
               /\ UNCHANGED last_emitted
    /\ wait_began' = [wait_began EXCEPT ![s] = 0]
    /\ woken_by' = [woken_by EXCEPT ![s] = 0]
    /\ UNCHANGED <<active_streams, local_frame, notStream>>
    /\ UNCHANGED <<attaches, detaches, attached_at, torn>>

\* (Variant: the resumed generator encodes the frame it holds once more.)
StreamResumeKeepsFrame(s) ==
    /\ spc[s] = "yield"
    /\ spc' = [spc EXCEPT ![s] = "encode"]
    /\ UNCHANGED <<active_streams, local_frame, notStream>>
    /\ UNCHANGED <<attaches, detaches, attached_at, wait_began, woken_by, last_emitted, torn>>

\* The transport asks for the next chunk: the generator resumes after the
\* yield and loops (line 313).
StreamResume(s) ==
    /\ spc[s] = "yield"
    /\ spc' = [spc EXCEPT ![s] = "loop"]
    /\ UNCHANGED <<active_streams, local_frame, notStream>>
    /\ UNCHANGED <<attaches, detaches, attached_at, wait_began, woken_by, last_emitted, torn>>

\* (Variant: the generator is dropped without running its finally block.)
StreamCloseNoFinally(s) ==
    /\ spc[s] = "yield"
    /\ spc' = [spc EXCEPT ![s] = "done"]
    /\ UNCHANGED <<active_streams, local_frame, notStream>>
    /\ UNCHANGED <<attaches, detaches, attached_at, wait_began, woken_by, last_emitted, torn>>

\* The transport closes the generator suspended at the yield: GeneratorExit
\* is not an Exception, so it passes line 333 and reaches `finally`.
StreamClose(s) ==
    /\ spc[s] = "yield"
    /\ spc' = [spc EXCEPT ![s] = "finally"]
    /\ UNCHANGED <<active_streams, local_frame, notStream>>
    /\ UNCHANGED <<attaches, detaches, attached_at, wait_began, woken_by, last_emitted, torn>>

\* (Variant: the exiting session leaves stream_lock held.)
StreamDetachKeepsLock(s) ==
    /\ spc[s] = "finally"
    /\ stream_lock = NoOwner
    /\ stream_lock' = StreamOwner(s)
    /\ active_streams' = active_streams - 1
    /\ detaches' = [detaches EXCEPT ![s] = @ + 1]
    /\ spc' = [spc EXCEPT ![s] = "done"]
    /\ UNCHANGED <<local_frame, camera, opened, frame_cond, frame_data, mainVars, grabVars>>
    /\ UNCHANGED <<metricsVars, healthVars, camHist, published, auxVars>>
    /\ UNCHANGED <<attaches, attached_at, wait_began, woken_by, last_emitted, torn>>

\* Lines 337-341: `finally: with stream_lock: active_streams -= 1`; the
\* generator is finished.
StreamDetach(s) ==
    /\ spc[s] = "finally"
    /\ stream_lock = NoOwner
    /\ active_streams' = active_streams - 1
    /\ detaches' = [detaches EXCEPT ![s] = @ + 1]
    /\ spc' = [spc EXCEPT ![s] = "done"]
    /\ UNCHANGED <<local_frame, notStream>>
    /\ UNCHANGED <<attaches, attached_at, wait_began, woken_by, last_emitted, torn>>

\* The detach block (lines 337-341) invoked once more for a session that
\* has already run it: a stray double detach.  The block has no guard.
StrayDetach(s) ==
    /\ spc[s] = "done"
    /\ detaches[s] = attaches[s]
    /\ stream_lock = NoOwner
    /\ active_streams' = active_streams - 1
    /\ detaches' = [detaches EXCEPT ![s] = @ + 1]
    /\ UNCHANGED <<spc, local_frame, notStream>>
    /\ UNCHANGED <<attaches, attached_at, wait_began, woken_by, last_emitted, torn>>

GenerateMjpeg(s) ==
    \/ StreamAttach(s)
    \/ StreamWait(s)
    \/ StreamWake(s)
    \/ StreamEncode(s)
    \/ StreamResume(s)
    \/ StreamClose(s)
    \/ StreamDetach(s)

\* -------------------------------------------------------------- /metrics
notMetrics == <<camera, opened, active_streams, stream_lock, mainVars, grabVars,
                streamVars, healthVars, camHist, busHist, auxVars>>

\* Line 386: `with frame_cond:`
MetricsLock(m) ==
    /\ main = "serving"
    /\ mpc[m] = "idle"
    /\ frame_cond = NoOwner
    /\ frame_cond' = MetricsOwner(m)
    /\ mpc' = [mpc EXCEPT ![m] = "get_counts"]
    /\ UNCHANGED <<frame_data, response, notMetrics>>

\* Line 387: response = frame_data.get('counts', {}): response is the
\* stored dict itself, not a copy.
MetricsGetCounts(m) ==
    /\ mpc[m] = "get_counts"
    /\ response' = [response EXCEPT ![m] = [counts |-> frame_data.counts.cycle, timestamp |-> -1]]
    /\ mpc' = [mpc EXCEPT ![m] = "set_timestamp"]
    /\ UNCHANGED <<frame_cond, frame_data, notMetrics>>

\* Lines 388-389: response['timestamp'] = frame_data['timestamp'] writes
\* the key into the dict response names (the stored counts dict, unless it
\* was replaced since line 387); jsonify; the lock is released.
MetricsRespond(m) ==
    /\ mpc[m] = "set_timestamp"
    /\ response' = [response EXCEPT ![m].timestamp = frame_data.timestamp]
    /\ frame_data' = IF frame_data.counts.cycle = response[m].counts
                     THEN [frame_data EXCEPT !.counts.ts_key = frame_data.timestamp]
                     ELSE frame_data
    /\ frame_cond' = NoOwner
    /\ mpc' = [mpc EXCEPT ![m] = "idle"]
    /\ UNCHANGED notMetrics

Metrics(m) ==
    \/ MetricsLock(m)
    \/ MetricsGetCounts(m)
    \/ MetricsRespond(m)

\* --------------------------------------------------------------- /health
notHealth == <<progVars, mainVars, grabVars, streamVars, metricsVars, camHist, busHist, auxVars>>

\* Line 413, left operand: `camera is not None` reads the global; when it
\* is None the handler answers 200 with camera_ready False (lines 414-418).
HealthCheckNone(h) ==
    /\ main = "serving"
    /\ hpc[h] = "idle"
    /\ IF camera = "None"
       THEN /\ camera_ready' = [camera_ready EXCEPT ![h] = FALSE]
            /\ health_status' = [health_status EXCEPT ![h] = 200]
            /\ UNCHANGED hpc
       ELSE /\ hpc' = [hpc EXCEPT ![h] = "is_opened"]
            /\ health_status' = [health_status EXCEPT ![h] = 0]
            /\ UNCHANGED camera_ready
    /\ UNCHANGED notHealth

\* Line 413, right operand: `camera.is_opened()` reads the global again;
\* on None the attribute lookup raises and the request ends with 500,
\* otherwise lines 414-418 answer 200.
HealthIsOpened(h) ==
    /\ hpc[h] = "is_opened"
    /\ IF camera = "None"
       THEN /\ health_status' = [health_status EXCEPT ![h] = 500]
            /\ UNCHANGED camera_ready
       ELSE /\ camera_ready' = [camera_ready EXCEPT ![h] = opened]
            /\ health_status' = [health_status EXCEPT ![h] = 200]
    /\ hpc' = [hpc EXCEPT ![h] = "idle"]
    /\ UNCHANGED notHealth

Health(h) ==
    \/ HealthCheckNone(h)
    \/ HealthIsOpened(h)

\* ------------------------------------- detection counts (grab_loop 193-215)
\* Confidences in hundredths around the threshold, raw class identifiers,
\* and the object lists retrieve_objects can hand to a cycle.
Confidences == {ConfidenceThreshold - 1, ConfidenceThreshold, ConfidenceThreshold + 1}
RawLabels == 0..MaxRawLabel
\* Lengths of obj.bounding_box_2d: the four corners, and the shorter
\* arrays that the test `len(bbox_2d) >= 2` (line 227) distinguishes.
BboxLens == {0, 2, 4}
Detections == [raw_label : RawLabels, confidence : Confidences, bbox_len : BboxLens]
ObjectLists == UNION {[1..n -> Detections] : n \in 0..MaxObjects}

\* A Python dict with string keys: {} , d.get(k, default), d[k] = v.
EmptyDict == [k \in {} |-> 0]
DictGet(d, k, default) == IF k \in DOMAIN d THEN d[k] ELSE default
DictPut(d, k, v) == [x \in DOMAIN d \cup {k} |-> IF x = k THEN v ELSE d[x]]

\* The members of sl.OBJECT_CLASS the model knows by name.
OBJECT_CLASS == [r \in {0, 1} |-> IF r = 0 THEN "PERSON" ELSE "VEHICLE"]

\* Lines 205-212: str(sl.OBJECT_CLASS(raw_label)).split('.')[-1], and on
\* ValueError / AttributeError the fallback "Person", "Vehicle", "Class_<n>".
LabelText(raw_label) ==
    IF enum_ok /\ raw_label \in DOMAIN OBJECT_CLASS
    THEN OBJECT_CLASS[raw_label]
    ELSE IF raw_label = 0 THEN "Person"
         ELSE IF raw_label = 1 THEN "Vehicle"
         ELSE "Class_" \o ToString(raw_label)

IdleCounts ==
    /\ objects = [is_new |-> FALSE, object_list |-> <<>>]
    /\ enum_ok = TRUE
    /\ cnt_pc = "idle"
    /\ obj_i = 0
    /\ counts = EmptyDict
    /\ drawn = EmptyDict
    /\ body = [status |-> 0, json |-> EmptyDict]

\* One capture cycle whose grab succeeded, with any object list.
InitCounts ==
    /\ objects \in [is_new : BOOLEAN, object_list : ObjectLists]
    /\ enum_ok \in BOOLEAN
    /\ cnt_pc = "begin"
    /\ obj_i = 0
    /\ counts = EmptyDict
    /\ drawn = EmptyDict
    /\ body = [status |-> 0, json |-> EmptyDict]

notCounts == <<edgeVars, gatewayVars, tailscaleVars, storageVars>>

\* Lines 197-200: counts = {}; `if objects.is_new:` enters the loop.
CountBegin ==
    /\ cnt_pc = "begin"
    /\ counts' = EmptyDict
    /\ drawn' = EmptyDict
    /\ obj_i' = 1
    /\ cnt_pc' = IF objects.is_new THEN "loop" ELSE "publish"
    /\ UNCHANGED <<objects, enum_ok, body, notCounts>>

\* Lines 226-236: `if len(bbox_2d) >= 2:` the rectangle from bbox_2d[0] to
\* bbox_2d[2] and the label are drawn; bbox_2d[2] raises IndexError on an
\* array of fewer than three points, which leaves the loop and the with
\* block for the handler at line 265; a shorter array draws nothing.
DrawBox(obj, label_text) ==
    IF obj.bbox_len < 2
    THEN /\ obj_i' = obj_i + 1
         /\ UNCHANGED <<drawn, cnt_pc>>
    ELSE IF obj.bbox_len < 3
    THEN /\ cnt_pc' = "raised"
         /\ UNCHANGED <<drawn, obj_i>>
    ELSE /\ drawn' = DictPut(drawn, label_text, DictGet(drawn, label_text, 0) + 1)
         /\ obj_i' = obj_i + 1
         /\ UNCHANGED cnt_pc

\* (Variant: a detection at the threshold is counted as well.)
CountObjectInclusive ==
    /\ cnt_pc = "loop"
    /\ IF obj_i > Len(objects.object_list)
       THEN /\ cnt_pc' = "publish"
            /\ UNCHANGED <<counts, drawn, obj_i>>
       ELSE LET obj == objects.object_list[obj_i]
                label_text == LabelText(obj.raw_label)
            IN  IF obj.confidence >= ConfidenceThreshold
                THEN /\ counts' = DictPut(counts, label_text,
                                          DictGet(counts, label_text, 0) + 1)
                     /\ DrawBox(obj, label_text)
                ELSE /\ obj_i' = obj_i + 1
                     /\ UNCHANGED <<counts, drawn, cnt_pc>>
    /\ UNCHANGED <<objects, enum_ok, body, notCounts>>

\* Lines 201-215: one iteration of `for obj in objects.object_list`:
\* `if obj.confidence > 0.5:` counts[label_text] = counts.get(label_text, 0) + 1.
CountObject ==
    /\ cnt_pc = "loop"
    /\ IF obj_i > Len(objects.object_list)
       THEN /\ cnt_pc' = "publish"
            /\ UNCHANGED <<counts, drawn, obj_i>>
       ELSE LET obj == objects.object_list[obj_i]
                label_text == LabelText(obj.raw_label)
            IN  IF obj.confidence > ConfidenceThreshold
                THEN /\ counts' = DictPut(counts, label_text,
                                          DictGet(counts, label_text, 0) + 1)
                     /\ DrawBox(obj, label_text)
                ELSE /\ obj_i' = obj_i + 1
                     /\ UNCHANGED <<counts, drawn, cnt_pc>>
    /\ UNCHANGED <<objects, enum_ok, body, notCounts>>

\* Line 240 stores counts in frame_data; /metrics (lines 386-389) answers
\* with that dict plus the key 'timestamp' and status 200.
CountsMetrics ==
    /\ cnt_pc = "publish"
    /\ body' = [status |-> 200, json |-> DictPut(counts, "timestamp", "isoformat")]
    /\ cnt_pc' = "done"
    /\ UNCHANGED <<objects, enum_ok, obj_i, counts, drawn, notCounts>>

\* ------------------------------------ API gateway (gateway.py 42-211)
GwReqs == 1..NumGwReqs
DeviceIds == {"zed-1", "zed-2"}
Urls == {"http://a", "http://b"}
DataForms == {"none", "no_id", "no_url", "full"}
NoArgs == [op |-> "none", id |-> "zed-1", data |-> "none", url |-> "http://a"]

DictDel(d, k) == [x \in DOMAIN d \ {k} |-> d[x]]

\* Lines 42-43: the registry starts empty; no request is in progress.
InitGateway ==
    /\ devices = EmptyDict
    /\ now = 0
    /\ gw_pc = [r \in GwReqs |-> "idle"]
    /\ gw_args = [r \in GwReqs |-> NoArgs]
    /\ gw_found = [r \in GwReqs |-> FALSE]
    /\ gw_resp = [r \in GwReqs |-> 0]

notGateway == <<edgeVars, countVars, tailscaleVars, storageVars>>

\* The host clock read by datetime.now() advances.
GwTick ==
    /\ now < MaxNow
    /\ now' = now + 1
    /\ UNCHANGED <<devices, gw_pc, gw_args, gw_found, gw_resp, notGateway>>

\* A request arrives and Flask dispatches it to its handler.
GwArrive(r) ==
    /\ gw_pc[r] = "idle"
    /\ \E a \in [op : {"register"}, id : DeviceIds, data : DataForms, url : Urls]
              \cup [op : {"unregister", "health"}, id : DeviceIds,
                    data : {"none"}, url : {"http://a"}] :
          /\ gw_args' = [gw_args EXCEPT ![r] = a]
          /\ gw_pc' = [gw_pc EXCEPT ![r] =
                 CASE a.op = "register" -> "reg_validate"
                   [] a.op = "unregister" -> "unreg"
                   [] OTHER -> "health_lookup"]
    /\ UNCHANGED <<devices, now, gw_found, gw_resp, notGateway>>

\* register_device, lines 107-113: 400 when the body, id or url is missing.
RegisterValidate(r) ==
    /\ gw_pc[r] = "reg_validate"
    /\ IF gw_args[r].data # "full"
       THEN /\ gw_resp' = [gw_resp EXCEPT ![r] = 400]
            /\ gw_pc' = [gw_pc EXCEPT ![r] = "done"]
       ELSE /\ gw_pc' = [gw_pc EXCEPT ![r] = "reg_write"]
            /\ UNCHANGED gw_resp
    /\ UNCHANGED <<devices, now, gw_args, gw_found, notGateway>>

\* register_device, lines 115-123: under device_lock the entry is assigned,
\* whether or not the id is already a key of the registry.
RegisterWrite(r) ==
    /\ gw_pc[r] = "reg_write"
    /\ gw_found' = [gw_found EXCEPT ![r] = gw_args[r].id \in DOMAIN devices]
    /\ devices' = DictPut(devices, gw_args[r].id,
           [url |-> gw_args[r].url, status |-> "connecting",
            lastSeen |-> now, registered |-> now, cameraReady |-> "absent"])
    /\ gw_pc' = [gw_pc EXCEPT ![r] = "reg_respond"]
    /\ UNCHANGED <<now, gw_args, gw_resp, notGateway>>

\* register_device, line 126: devices[device_id] is read again outside the
\* lock for the 201 body; a missing key raises KeyError (answered as 500).
RegisterRespond(r) ==
    /\ gw_pc[r] = "reg_respond"
    /\ gw_resp' = [gw_resp EXCEPT ![r] =
           IF gw_args[r].id \in DOMAIN devices THEN 201 ELSE 500]
    /\ gw_pc' = [gw_pc EXCEPT ![r] = "done"]
    /\ UNCHANGED <<devices, now, gw_args, gw_found, notGateway>>

\* unregister_device, lines 143-148, one block under device_lock.
UnregisterDevice(r) ==
    /\ gw_pc[r] = "unreg"
    /\ IF gw_args[r].id \in DOMAIN devices
       THEN /\ devices' = DictDel(devices, gw_args[r].id)
            /\ gw_resp' = [gw_resp EXCEPT ![r] = 200]
       ELSE /\ gw_resp' = [gw_resp EXCEPT ![r] = 404]
            /\ UNCHANGED devices
    /\ gw_pc' = [gw_pc EXCEPT ![r] = "done"]
    /\ UNCHANGED <<now, gw_args, gw_found, notGateway>>

\* device_health, lines 183-187: lookup under device_lock.
HealthLookup(r) ==
    /\ gw_pc[r] = "health_lookup"
    /\ IF gw_args[r].id \notin DOMAIN devices
       THEN /\ gw_resp' = [gw_resp EXCEPT ![r] = 404]
            /\ gw_pc' = [gw_pc EXCEPT ![r] = "done"]
       ELSE /\ gw_pc' = [gw_pc EXCEPT ![r] = "health_call"]
            /\ UNCHANGED gw_resp
    /\ UNCHANGED <<devices, now, gw_args, gw_found, notGateway>>

\* device_health, lines 191-193, outside the lock: the device answers 200
\* with a JSON body, answers another status, or requests.get / json() raises.
\* With another status the function reaches its end without a return
\* statement; Flask rejects the None result with an unhandled error (500).
HealthCall(r) ==
    /\ gw_pc[r] = "health_call"
    /\ \E outcome \in {"status_200", "status_other", "raised"} :
          CASE outcome = "status_200" ->
                 /\ gw_pc' = [gw_pc EXCEPT ![r] = "health_update"]
                 /\ UNCHANGED gw_resp
            [] outcome = "status_other" ->
                 /\ gw_resp' = [gw_resp EXCEPT ![r] = 500]
                 /\ gw_pc' = [gw_pc EXCEPT ![r] = "done"]
            [] OTHER ->
                 /\ gw_pc' = [gw_pc EXCEPT ![r] = "health_except"]
                 /\ UNCHANGED gw_resp
    /\ UNCHANGED <<devices, now, gw_args, gw_found, notGateway>>

\* device_health, lines 196-205: the registry entry is updated under the
\* lock; devices[device_id] raises KeyError when the id was removed
\* meanwhile, and the KeyError is caught by line 206.
HealthUpdate(r) ==
    /\ gw_pc[r] = "health_update"
    /\ IF gw_args[r].id \in DOMAIN devices
       THEN /\ \E reported \in {"true", "false"} :
                  devices' = [devices EXCEPT ![gw_args[r].id] =
                      [@ EXCEPT !.status = "online", !.lastSeen = now,
                                !.cameraReady = reported]]
            /\ gw_resp' = [gw_resp EXCEPT ![r] = 200]
            /\ gw_pc' = [gw_pc EXCEPT ![r] = "done"]
       ELSE /\ gw_pc' = [gw_pc EXCEPT ![r] = "health_except"]
            /\ UNCHANGED <<devices, gw_resp>>
    /\ UNCHANGED <<now, gw_args, gw_found, notGateway>>

\* device_health, lines 206-211: the handler marks the entry offline under
\* the lock and answers 503; devices[device_id] raises KeyError inside the
\* handler when the id is not registered, which nothing catches (500).
HealthExcept(r) ==
    /\ gw_pc[r] = "health_except"
    /\ IF gw_args[r].id \in DOMAIN devices
       THEN /\ devices' = [devices EXCEPT ![gw_args[r].id].status = "offline"]
            /\ gw_resp' = [gw_resp EXCEPT ![r] = 503]
       ELSE /\ gw_resp' = [gw_resp EXCEPT ![r] = 500]
            /\ UNCHANGED devices
    /\ gw_pc' = [gw_pc EXCEPT ![r] = "done"]
    /\ UNCHANGED <<now, gw_args, gw_found, notGateway>>

\* ------------------- Tailscale client cache (tailscale_client.py 47-230)
NoList == [some |-> FALSE, value |-> <<>>]
SomeList(l) == [some |-> TRUE, value |-> l]
NoTime == -1

\* Python truth value of self._device_cache: None and [] are both false.
Truthy(c) == c.some /\ Len(c.value) > 0

ApiLists == {SubSeq(<<"node-123", "node-456">>, 1, n) : n \in 0..MaxTsDevices}

\* What session.get / session.delete can produce: a 200 reply with or
\* without the "devices" key, an error status, or a raised exception.
ApiReplies ==
    {[status |-> 200, devices |-> SomeList(l)] : l \in ApiLists}
        \cup {[status |-> 200, devices |-> NoList],
              [status |-> 401, devices |-> NoList],
              [status |-> 0, devices |-> NoList]}

NoCall == [seq |-> 0, op |-> "none", force |-> FALSE, requested |-> FALSE,
           ret |-> [kind |-> "none", value |-> <<>>]]

\* __init__, lines 47-49.
InitTailscale ==
    /\ device_cache = NoList
    /\ cache_time = NoTime
    /\ utcnow = 0
    /\ ts_last = NoCall
    /\ last_ok = [some |-> FALSE, at |-> 0, list |-> <<>>]

notTailscale == <<edgeVars, countVars, gatewayVars, storageVars>>

TsTick ==
    /\ utcnow < MaxMinutes
    /\ utcnow' = utcnow + 1
    /\ UNCHANGED <<device_cache, cache_time, ts_last, last_ok, notTailscale>>

\* get_devices, lines 101-104: the cache is used when force_refresh is
\* false, self._device_cache is true, self._cache_time is true and the
\* cache is younger than the TTL.
CacheHit(force_refresh) ==
    /\ ~force_refresh
    /\ Truthy(device_cache)
    /\ cache_time # NoTime
    /\ utcnow - cache_time < cache_ttl

\* get_devices, lines 80-126.
GetDevices ==
    \E force_refresh \in BOOLEAN, reply \in ApiReplies :
        /\ IF CacheHit(force_refresh)
           THEN /\ ts_last' = [seq |-> 1 - ts_last.seq, op |-> "get_devices",
                               force |-> force_refresh, requested |-> FALSE,
                               ret |-> [kind |-> "list", value |-> device_cache.value]]
                /\ UNCHANGED <<device_cache, cache_time, last_ok>>
           ELSE IF reply.status = 200
           THEN LET fetched == IF reply.devices.some THEN reply.devices.value ELSE <<>>
                IN  /\ device_cache' = SomeList(fetched)
                    /\ cache_time' = utcnow
                    /\ last_ok' = [some |-> TRUE, at |-> utcnow, list |-> fetched]
                    /\ ts_last' = [seq |-> 1 - ts_last.seq, op |-> "get_devices",
                                   force |-> force_refresh, requested |-> TRUE,
                                   ret |-> [kind |-> "list", value |-> fetched]]
           ELSE /\ ts_last' = [seq |-> 1 - ts_last.seq, op |-> "get_devices",
                               force |-> force_refresh, requested |-> TRUE,
                               ret |-> IF Truthy(device_cache)
                                       THEN [kind |-> "list", value |-> device_cache.value]
                                       ELSE [kind |-> "raised", value |-> <<>>]]
                /\ UNCHANGED <<device_cache, cache_time, last_ok>>
        /\ UNCHANGED <<utcnow, notTailscale>>

\* remove_device, lines 165-185: the cache is dropped when the API accepts
\* the removal; the exception is re-raised otherwise.
RemoveDevice ==
    \E reply \in ApiReplies :
        /\ IF reply.status = 200
           THEN /\ device_cache' = NoList
                /\ ts_last' = [seq |-> 1 - ts_last.seq, op |-> "remove_device",
                               force |-> FALSE, requested |-> TRUE,
                               ret |-> [kind |-> "true", value |-> <<>>]]
           ELSE /\ ts_last' = [seq |-> 1 - ts_last.seq, op |-> "remove_device",
                               force |-> FALSE, requested |-> TRUE,
                               ret |-> [kind |-> "raised", value |-> <<>>]]
                /\ UNCHANGED device_cache
        /\ last_ok' = [some |-> FALSE, at |-> 0, list |-> <<>>]
        /\ UNCHANGED <<cache_time, utcnow, notTailscale>>

\* clear_cache, lines 227-231.
ClearCache ==
    /\ device_cache' = NoList
    /\ cache_time' = NoTime
    /\ ts_last' = [seq |-> 1 - ts_last.seq, op |-> "clear_cache",
                   force |-> FALSE, requested |-> FALSE,
                   ret |-> [kind |-> "none", value |-> <<>>]]
    /\ last_ok' = [some |-> FALSE, at |-> 0, list |-> <<>>]
    /\ UNCHANGED <<utcnow, notTailscale>>

\* ------------------------------- encrypted storage (storage.py 17-224)
StorageIds == {"node-1", "node-2"}
Secrets == {"", "deployment-token-xyz"}
ConfigKeys == {"api_key", "tailnet", "oauth_client_id", "oauth_client_secret"}

\* The config dicts a caller can pass: any subset of the keys.
Configs == UNION {[K -> {"given"}] : K \in SUBSET ConfigKeys}

\* A string of the JSON file: plain text, or a Fernet token that only the
\* key it was made with opens.
CipherKey == "data/.key"
Plain(text) == [key |-> "plain", text |-> text]

\* encrypt_value, lines 53-64.
encrypt_value(value) == [key |-> CipherKey, text |-> value]

\* decrypt_value, lines 66-83: the plaintext, or ValueError.
decrypt_value(encrypted) ==
    IF encrypted.key = CipherKey
    THEN [kind |-> "value", value |-> encrypted.text]
    ELSE [kind |-> "raised", value |-> ""]

\* The file content: the top-level string entries and the "devices" entry.
NoFile == [exists |-> FALSE, top |-> EmptyDict, has_devices |-> FALSE,
           devices |-> EmptyDict]

\* Python truth value of what _read_storage returns (lines 210-216): None
\* when the file does not exist, and an empty dict, are false.
DataTruthy(f) == f.exists /\ (DOMAIN f.top # {} \/ f.has_devices)

NoStCall == [seq |-> 0, op |-> "none", id |-> "node-1", secret |-> "",
             ret |-> [kind |-> "none", value |-> ""], config |-> EmptyDict]

StCall(op, id, secret, ret, config) ==
    [seq |-> 1 - st_last.seq, op |-> op, id |-> id, secret |-> secret,
     ret |-> ret, config |-> config]

RetNone == [kind |-> "none", value |-> ""]

\* __init__, lines 25-34: no credentials file yet.
InitStorage ==
    /\ storage_file = NoFile
    /\ st_last = NoStCall
    /\ last_config = [some |-> FALSE, config |-> EmptyDict]

notStorage == <<edgeVars, countVars, gatewayVars, tailscaleVars>>

\* save_tailscale_config, lines 85-115: the new dict replaces the whole
\* file content.  (created_at and version are written and never read.)
SaveTailscaleConfig ==
    \E config \in Configs :
        LET base == DictPut(DictPut(EmptyDict,
                        "api_key", encrypt_value(DictGet(config, "api_key", ""))),
                        "tailnet", Plain(DictGet(config, "tailnet", "")))
            with_secret == IF "oauth_client_secret" \in DOMAIN config
                           THEN DictPut(base, "oauth_client_secret",
                                        encrypt_value(config["oauth_client_secret"]))
                           ELSE base
            encrypted_config == IF "oauth_client_id" \in DOMAIN config
                                THEN DictPut(with_secret, "oauth_client_id",
                                             Plain(config["oauth_client_id"]))
                                ELSE with_secret
        IN  /\ storage_file' = [exists |-> TRUE, top |-> encrypted_config,
                                has_devices |-> FALSE, devices |-> EmptyDict]
            /\ last_config' = [some |-> TRUE, config |-> config]
            /\ st_last' = StCall("save_tailscale_config", "node-1", "", RetNone, EmptyDict)
            /\ UNCHANGED notStorage

\* load_tailscale_config, lines 117-144, as a function of the file.
LoadConfig(f) ==
    IF ~DataTruthy(f) THEN [kind |-> "none", config |-> EmptyDict]
    ELSE IF "api_key" \notin DOMAIN f.top
              \/ decrypt_value(f.top["api_key"]).kind = "raised"
              \/ ("oauth_client_secret" \in DOMAIN f.top
                    /\ decrypt_value(f.top["oauth_client_secret"]).kind = "raised")
         THEN [kind |-> "raised", config |-> EmptyDict]
    ELSE LET base == DictPut(DictPut(EmptyDict,
                         "api_key", decrypt_value(f.top["api_key"]).value),
                         "tailnet", IF "tailnet" \in DOMAIN f.top
                                    THEN f.top["tailnet"].text ELSE "")
             with_secret == IF "oauth_client_secret" \in DOMAIN f.top
                            THEN DictPut(base, "oauth_client_secret",
                                     decrypt_value(f.top["oauth_client_secret"]).value)
                            ELSE base
         IN  [kind |-> "config",
              config |-> IF "oauth_client_id" \in DOMAIN f.top
                         THEN DictPut(with_secret, "oauth_client_id",
                                      f.top["oauth_client_id"].text)
                         ELSE with_secret]

LoadTailscaleConfig ==
    /\ st_last' = StCall("load_tailscale_config", "node-1", "",
                         [kind |-> LoadConfig(storage_file).kind, value |-> ""],
                         LoadConfig(storage_file).config)
    /\ UNCHANGED <<storage_file, last_config, notStorage>>

\* save_device_secret, lines 146-164.
SaveDeviceSecret ==
    \E device_id \in StorageIds, secret \in Secrets :
        LET data == IF DataTruthy(storage_file)
                    THEN storage_file
                    ELSE [NoFile EXCEPT !.exists = TRUE]
        IN  /\ storage_file' = [data EXCEPT !.has_devices = TRUE,
                                  !.devices = DictPut(data.devices, device_id,
                                                      encrypt_value(secret))]
            /\ st_last' = StCall("save_device_secret", device_id, secret, RetNone, EmptyDict)
            /\ UNCHANGED <<last_config, notStorage>>

\* load_device_secret, lines 166-187, as a function of the file.
LoadSecret(f, device_id) ==
    IF ~DataTruthy(f) \/ ~f.has_devices THEN RetNone
    ELSE IF device_id \notin DOMAIN f.devices THEN RetNone
    ELSE decrypt_value(f.devices[device_id])

LoadDeviceSecret ==
    \E device_id \in StorageIds :
        /\ st_last' = StCall("load_device_secret", device_id, "",
                             LoadSecret(storage_file, device_id), EmptyDict)
        /\ UNCHANGED <<storage_file, last_config, notStorage>>

\* Variant of delete that reports True without writing the file back.
DeleteDeviceSecretNotWritten ==
    \E device_id \in StorageIds :
        /\ st_last' = StCall("delete_device_secret", device_id, "",
                 [kind |-> IF DataTruthy(storage_file) /\ storage_file.has_devices
                                /\ device_id \in DOMAIN storage_file.devices
                           THEN "true" ELSE "false", value |-> ""], EmptyDict)
        /\ UNCHANGED <<storage_file, last_config, notStorage>>

\* delete_device_secret, lines 189-208.
DeleteDeviceSecret ==
    \E device_id \in StorageIds :
        /\ IF DataTruthy(storage_file) /\ storage_file.has_devices
                /\ device_id \in DOMAIN storage_file.devices
           THEN /\ storage_file' = [storage_file EXCEPT
                       !.devices = DictDel(storage_file.devices, device_id)]
                /\ st_last' = StCall("delete_device_secret", device_id, "",
                                     [kind |-> "true", value |-> ""], EmptyDict)
           ELSE /\ st_last' = StCall("delete_device_secret", device_id, "",
                                     [kind |-> "false", value |-> ""], EmptyDict)
                /\ UNCHANGED storage_file
        /\ UNCHANGED <<last_config, notStorage>>

\* The other subsystems at rest.
IdleAux == IdleCounts /\ InitGateway /\ InitTailscale /\ InitStorage

\* ------------------------------------------------------- specifications
\* The frame bus: the capture thread and the stream sessions, with at most
\* BusFaults hardware faults (the failure threshold is not reached).
Init == InitProgram /\ fault_budget = BusFaults /\ IdleAux

Next ==
    \/ MainInit
    \/ InitNewCamera
    \/ InitOpen
    \/ InitSetup
    \/ MainServe
    \/ GrabLoopFewFaults
    \/ \E s \in Streams : GenerateMjpeg(s)

Spec == Init /\ [][Next]_vars

\* The snapshot readers: the capture thread, /metrics handlers and one
\* stream session.
NextReaders ==
    \/ MainInit
    \/ InitNewCamera
    \/ InitOpen
    \/ InitSetup
    \/ MainServe
    \/ GrabLoopFewFaults
    \/ GenerateMjpeg(1)
    \/ \E m \in MetricsReqs : Metrics(m)

SpecReaders == Init /\ [][NextReaders]_vars

\* The camera supervisor: the capture thread and /health, no stream client,
\* with enough hardware faults to reach the failure threshold.
InitCamera == InitProgram /\ fault_budget = CameraFaults /\ IdleAux

NextCamera ==
    \/ MainInit
    \/ InitNewCamera
    \/ InitOpen
    \/ InitSetup
    \/ MainServe
    \/ GrabLoop
    \/ \E h \in HealthReqs : Health(h)

SpecCamera == InitCamera /\ [][NextCamera]_vars

\* The same program under fair scheduling: the main thread and the capture
\* thread keep running while they have a step to take, and a notified
\* session gets frame_cond, which the capture loop leaves free during every
\* sleep and hardware call outside lines 180-246.
Fairness ==
    /\ WF_vars(MainInit \/ InitNewCamera \/ InitOpen \/ InitSetup \/ MainServe)
    /\ WF_vars(GrabLoopFewFaults)
    /\ \A s \in Streams : SF_vars(StreamWake(s))

SpecLive == Spec /\ Fairness

\* The stream sessions with a stray second detach of a finished session.
NextStray ==
    \/ MainInit
    \/ InitNewCamera
    \/ InitOpen
    \/ InitSetup
    \/ MainServe
    \/ GrabLoopFewFaults
    \/ \E s \in Streams : GenerateMjpeg(s)
    \/ \E s \in Streams : StrayDetach(s)

SpecStray == Init /\ [][NextStray]_vars

\* Detection counting: one successful cycle's counting loop and the
\* /metrics answer built from its result, for every object list.
InitCountsSpec ==
    /\ InitProgram /\ fault_budget = 0
    /\ InitCounts /\ InitGateway /\ InitTailscale /\ InitStorage

NextCounts ==
    \/ CountBegin
    \/ CountObject
    \/ CountsMetrics

SpecCounts == InitCountsSpec /\ [][NextCounts]_vars

\* The gateway's registry and its register, unregister and health handlers.
InitServices == InitProgram /\ fault_budget = 0 /\ IdleAux

NextGateway ==
    \/ GwTick
    \/ \E r \in GwReqs : GwArrive(r)
    \/ \E r \in GwReqs : RegisterValidate(r)
    \/ \E r \in GwReqs : RegisterWrite(r)
    \/ \E r \in GwReqs : RegisterRespond(r)
    \/ \E r \in GwReqs : UnregisterDevice(r)
    \/ \E r \in GwReqs : HealthLookup(r)
    \/ \E r \in GwReqs : HealthCall(r)
    \/ \E r \in GwReqs : HealthUpdate(r)
    \/ \E r \in GwReqs : HealthExcept(r)

SpecGateway == InitServices /\ [][NextGateway]_vars

\* One TailscaleClient and its device cache.
NextTailscale ==
    \/ TsTick
    \/ GetDevices
    \/ RemoveDevice
    \/ ClearCache

SpecTailscale == InitServices /\ [][NextTailscale]_vars

\* One EncryptedStorage used by one caller at a time.
NextStorage ==
    \/ SaveTailscaleConfig
    \/ LoadTailscaleConfig
    \/ SaveDeviceSecret
    \/ LoadDeviceSecret
    \/ DeleteDeviceSecret

SpecStorage == InitServices /\ [][NextStorage]_vars

\* ---------------------------------------------------------------- claims
RECURSIVE SumTo(_, _)
SumTo(f, n) == IF n = 0 THEN 0 ELSE f[n] + SumTo(f, n - 1)

\* C1: under every interleaving of stream-session starts and exits the
\* subscriber count active_streams is never negative and equals the number
\* of attaches performed minus the number of detaches performed.
C1_SubscriberCount ==
    /\ active_streams >= 0
    /\ active_streams = SumTo(attaches, NumStreams) - SumTo(detaches, NumStreams)

\* One session has attached and detached while another is still attached.
C1_Witness ==
    /\ SumTo(attaches, NumStreams) = 2
    /\ SumTo(detaches, NumStreams) = 1
    /\ active_streams = 1

\* C2: a session that has attached detaches exactly once on every exit path
\* of its loop (transport close at the yield, exception in the loop): it is
\* attached and not detached while it runs, and finished only after exactly
\* one decrement.
C2_DetachExactlyOnce ==
    \A s \in Streams :
        /\ attaches[s] <= 1
        /\ detaches[s] <= attaches[s]
        /\ spc[s] = "idle" => attaches[s] = 0
        /\ spc[s] \notin {"idle", "done"} => attaches[s] = 1 /\ detaches[s] = 0
        /\ spc[s] = "done" => attaches[s] = 1 /\ detaches[s] = 1

\* Two sessions are finished, one that never yielded a frame (it left through
\* the exception handler) and one that left after a yield.
C2_Witness ==
    \E s, r \in Streams :
        /\ spc[s] = "done" /\ last_emitted[s] = 0
        /\ spc[r] = "done" /\ last_emitted[r] > 0
        /\ active_streams = 0

\* C3: every consumer blocked in frame_cond.wait at a publish reads that
\* exact snapshot: a woken consumer never returns from the wait holding a
\* later snapshot than the one whose notify_all woke it.
C3_WokenReadsWakingSnapshot ==
    \A s \in Streams :
        spc[s] = "encode" => local_frame[s].cycle = woken_by[s]

\* C4: the wait never returns a snapshot published before it began: the
\* frame a session reads, and every frame it yields, has a publish index
\* greater than the number of publishes at its attach and at the start of
\* the wait, and while nothing has been published no session gets past its
\* first wait.
C4_NoReplay ==
    \A s \in Streams :
        /\ spc[s] = "encode" =>
              /\ local_frame[s].cycle > wait_began[s]
              /\ wait_began[s] >= attached_at[s]
        /\ last_emitted[s] # 0 => last_emitted[s] > attached_at[s]
        /\ published = 0 =>
              /\ spc[s] \notin {"woken", "encode", "yield"}
              /\ last_emitted[s] = 0

\* A session that attached after the first publish has yielded the second.
C4_Witness ==
    \E s \in Streams :
        /\ attached_at[s] = 1
        /\ spc[s] = "yield"
        /\ last_emitted[s] = 2

\* C5: every reader of the shared snapshot sees frame, counts and timestamp
\* of one and the same publish: frame_data is whole whenever a /metrics
\* handler or a stream session reads it, and the counts and the timestamp a
\* /metrics response carries belong to the same publish.
C5_ReadersSeeOnePublish ==
    /\ ~torn
    /\ \A m \in MetricsReqs :
          /\ mpc[m] # "idle" => FrameDataWhole /\ frame_cond = MetricsOwner(m)
          /\ mpc[m] = "idle" => response[m].counts = response[m].timestamp

\* A /metrics handler is between its two reads while the capture thread,
\* with a new cycle grabbed, waits for the lock; and a session has read a
\* published frame.
C5_Witness ==
    /\ \E m \in MetricsReqs : mpc[m] = "set_timestamp" /\ response[m].counts = 1
    /\ gpc = "lock_frame"
    /\ local_frame[1].cycle = 1

\* The capture thread's next step, in grab_loop or in the init_zed_camera
\* it called.
ProducerStep ==
    \/ GrabLoopFewFaults
    \/ InitNewCamera
    \/ InitOpen
    \/ InitSetup

\* C6: a consumer stopped between reading a frame and its next wait (while
\* encoding, or suspended at the yield) holds neither lock, and in every
\* such state the capture thread can take its next step (while a grab can
\* still succeed), so it can walk through a whole capture-and-publish cycle
\* with the consumer never moving.
C6_StalledConsumerNeverBlocksCapture ==
    \A s \in Streams :
        spc[s] \in {"encode", "yield"} =>
            /\ frame_cond # StreamOwner(s)
            /\ stream_lock # StreamOwner(s)
            /\ (gpc # "idle" /\ published < MaxPublish) => ENABLED ProducerStep

\* A session still sits at the yield of the first frame while the capture
\* thread has published the second.
C6_Witness ==
    \E s \in Streams :
        /\ spc[s] = "yield"
        /\ last_emitted[s] = 1
        /\ published = 2

\* C7: ten consecutive grab failures on the open camera lead straight into
\* the close: the camera is closed exactly once, the handle is cleared, and
\* open() is attempted only when no handle is left open.
C7_ThresholdClosesOnce ==
    /\ fail_run <= max_failures_before_reconnect
    /\ fail_run = max_failures_before_reconnect =>
          gpc \in {"threshold_close", "threshold_clear"}
    /\ gpc \in {"threshold_clear", "sleep_cooldown"} =>
          /\ ~opened
          /\ open_handles = 0
          /\ closes_since_open = 1
          /\ last_cam_op = "close"
    /\ gpc = "sleep_cooldown" => camera = "None"
    /\ closes_since_open <= 1
    /\ open_handles <= 1
    /\ ipc = "open" => open_handles = 0

\* The tenth consecutive failure has just closed the camera.
C7_Witness ==
    /\ gpc = "threshold_clear"
    /\ fail_run = max_failures_before_reconnect
    /\ fault = [kind |-> "threshold", cf |-> max_failures_before_reconnect]
    /\ closes_since_open = 1

\* C8: an exception inside a capture cycle closes the camera and clears the
\* handle at once, whatever the failure counter is and without counting
\* toward the threshold, and the capture thread's next camera operation
\* after a close is an open() attempt.
C8_HardFaultClosesAtOnce ==
    /\ [](fault.kind = "exception" =>
            /\ gpc \in {"except_close", "except_clear", "sleep_except"}
            /\ consecutive_failures = fault.cf
            /\ gpc \in {"except_clear", "sleep_except"} =>
                  /\ ~opened
                  /\ open_handles = 0
                  /\ last_cam_op = "close"
            /\ gpc = "sleep_except" => camera = "None" /\ sleep_ms = SleepExceptionMs)
    /\ [][(last_cam_op = "close" /\ last_cam_op' # "close") => last_cam_op' = "open"]_vars

\* An exception was handled with the counter at 3: the camera is closed.
C8_Witness ==
    /\ gpc = "sleep_except"
    /\ fault = [kind |-> "exception", cf |-> 3]
    /\ camera = "None"

\* C9: after an init_zed_camera call of the capture loop has returned False
\* the session stays disconnected: /health cannot see an open camera and
\* the loop performs no grab until a later call returns True.
C9_FailedOpenStaysDisconnected ==
    (init_result = "fail" /\ main \in {"thread", "serving"}) =>
        /\ ~(camera # "None" /\ opened)
        /\ last_cam_op \notin {"grab", "retrieve"}

\* C10: GET /health always completes with status 200.
C10_HealthAlways200 ==
    \A h \in HealthReqs : health_status[h] \in {0, 200}

\* The capture thread runs and the current handle is not open: the camera
\* was closed (or never reopened) since it was last opened successfully.
CameraClosed ==
    /\ main \in {"thread", "serving"}
    /\ ~opened

\* C11: from the close of the camera until an open() succeeds every /health
\* response reports the camera as not ready (status 200 with camera_ready
\* false), and the published snapshot is neither cleared nor replaced.
C11_ClosedCameraReportedNotReady ==
    /\ [][\A h \in HealthReqs :
            (CameraClosed /\ Health(h) /\ hpc'[h] = "idle") =>
                (health_status'[h] = 200 /\ ~camera_ready'[h])]_vars
    /\ [][CameraClosed => frame_data' = frame_data]_vars

\* C12: a session blocked in frame_cond.wait whose consumer disconnects is
\* closed right there: in every state with a session in the wait the
\* transport's close of that session (or its detach) is enabled, with no
\* further publish or encode needed.
C12_DisconnectNoticedInWait ==
    \A s \in Streams :
        spc[s] = "waiting" => ENABLED (StreamClose(s) \/ StreamDetach(s))

\* C13: in every successful capture cycle the pacing sleep is the short one
\* (0.1 s) exactly when the subscriber count of that cycle is at least 1 and
\* the long one (0.5 s) exactly when it is 0; the count is read once, under
\* stream_lock, and cannot change during the sleep.
C13_PacingFollowsSubscriberCount ==
    gpc = "pacing" =>
        /\ stream_lock = GrabOwner
        /\ (sleep_ms = SleepStreamingMs) <=> (active_streams >= 1)
        /\ (sleep_ms = SleepIdleMs) <=> (active_streams = 0)

\* The capture thread paces a cycle fast with a session attached, after a
\* first cycle was published.
C13_Witness ==
    /\ gpc = "pacing"
    /\ active_streams = 1
    /\ sleep_ms = SleepStreamingMs
    /\ published = 1

\* C14: active_streams and frame_data are written under one and the same
\* lock, so an attach or a detach never happens while another thread is
\* inside the critical section that replaces or reads the snapshot.
C14_CountAndSnapshotUnderOneLock ==
    [][active_streams' # active_streams => frame_cond = NoOwner]_vars

\* C15: the /metrics handler never mutates shared state: the stored counts
\* map holds only what the capture thread wrote, with no key added by a
\* reader.
C15_MetricsMutatesNothing ==
    /\ [](frame_data.counts.ts_key = -1)
    /\ [][\A m \in MetricsReqs :
            Metrics(m) => (frame_data' = frame_data /\ active_streams' = active_streams)]_vars

\* C16: /metrics returns exactly the counts and the timestamp of the most
\* recent publish, whatever the subscriber count is: while a handler holds
\* the lock the stored counts and timestamp are those of the last publish,
\* the dict it took is that one, and the finished response carries both.
C16_MetricsReturnsLatestPublish ==
    /\ [](\A m \in MetricsReqs :
            /\ mpc[m] # "idle" =>
                  /\ frame_data.counts.cycle = published
                  /\ frame_data.timestamp = published
            /\ mpc[m] = "set_timestamp" => response[m].counts = published)
    /\ [][\A m \in MetricsReqs :
            (mpc[m] = "set_timestamp" /\ mpc'[m] = "idle") =>
                /\ response'[m].counts = published
                /\ response'[m].timestamp = published]_vars

\* With no stream attached a handler is about to answer with the second
\* publish.
C16_Witness ==
    \E m \in MetricsReqs :
        /\ mpc[m] = "set_timestamp"
        /\ response[m].counts = 2
        /\ published = 2
        /\ active_streams = 0
        /\ attaches[1] = 0

\* C17: when the initial init_zed_camera fails, __main__ exits without
\* starting the capture thread or the HTTP server: before a successful
\* start and after the exit nothing runs and no request is handled, leaving
\* "start" goes to the capture thread only with the camera opened and to the
\* exit otherwise, and the exit is final.
C17_FailedStartupServesNothing ==
    /\ [](main \in {"start", "exited"} =>
            /\ gpc = "idle"
            /\ active_streams = 0
            /\ published = 0
            /\ \A s \in Streams : spc[s] = "idle"
            /\ \A m \in MetricsReqs : mpc[m] = "idle" /\ response[m].timestamp = -1
            /\ \A h \in HealthReqs : hpc[h] = "idle" /\ health_status[h] = 0)
    /\ [][(main = "start" /\ main' # "start") =>
            \/ main' = "thread" /\ init_result' = "ok" /\ opened' /\ camera' # "None"
            \/ main' = "exited" /\ init_result' = "fail"]_vars
    /\ [][main = "exited" => main' = "exited"]_vars
    /\ [][main' = "serving" => main \in {"thread", "serving"}]_vars

\* The initial camera.open failed and the process has exited.
C17_Witness ==
    /\ main = "exited"
    /\ init_result = "fail"
    /\ last_cam_op = "open"
    /\ ~opened

\* C18: an encoding or emission failure skips only that frame and the
\* session goes on with its next wait: a session leaves its loop for the
\* finally block only from the yield, where the transport closes it because
\* the consumer has disconnected.
C18_EncodeFailureSkipsFrameOnly ==
    [][\A s \in Streams :
          (spc'[s] = "finally" /\ spc[s] # "finally") => spc[s] = "yield"]_vars

\* C19: the failure or exit of one session is local: the steps by which it
\* leaves change no shared state except the one decrement of active_streams
\* and touch no other session; every publish still wakes every other
\* session that waits, a woken session can still read the frame, and the
\* capture thread can still take its next step.
C19_SessionExitIsLocal ==
    /\ [][\A s \in Streams :
            (spc[s] \in {"encode", "yield", "finally"} /\ spc'[s] \in {"finally", "done"}
                /\ spc'[s] # spc[s]) =>
                /\ <<camera, opened, frame_cond, frame_data, stream_lock>>'
                      = <<camera, opened, frame_cond, frame_data, stream_lock>>
                /\ <<gpc, published>>' = <<gpc, published>>
                /\ active_streams' = active_streams - (IF spc'[s] = "done" THEN 1 ELSE 0)
                /\ \A r \in Streams \ {s} :
                      spc'[r] = spc[r] /\ local_frame'[r] = local_frame[r]]_vars
    /\ [][published' = published + 1 =>
            \A r \in Streams :
                spc[r] = "waiting" => (spc'[r] = "woken" /\ woken_by'[r] = published')]_vars
    /\ [](\A s \in Streams :
            spc[s] \in {"finally", "done"} =>
                /\ \A r \in Streams \ {s} :
                      (spc[r] = "woken" /\ frame_cond = NoOwner) => ENABLED StreamWake(r)
                /\ (gpc # "idle" /\ published < MaxPublish) => ENABLED ProducerStep)

\* One session has failed on the first frame and detached; the other has
\* been woken by the second publish.
C19_Witness ==
    \E s, r \in Streams :
        /\ spc[s] = "done"
        /\ local_frame[s].cycle = 1
        /\ last_emitted[s] = 0
        /\ spc[r] = "woken"
        /\ woken_by[r] = 2
        /\ active_streams = 1

\* C20: no request handler calls a method on the camera handle, so no call
\* of a handler on the camera is pending while the capture thread is about
\* to close or to open it.
C20_OnlyCaptureLoopTouchesCamera ==
    \A h \in HealthReqs :
        ~ /\ hpc[h] = "is_opened"
          /\ camera # "None"
          /\ \/ gpc \in {"threshold_close", "except_close"}
             \/ ipc = "open"

\* The detections among the first n of the list that count for a label.
Qualifying(label, n) ==
    {i \in 1..n : /\ LabelText(objects.object_list[i].raw_label) = label
                  /\ objects.object_list[i].confidence > ConfidenceThreshold}

\* C21: counts contains only labels that had at least one detection with
\* confidence strictly above 0.5 in the cycle, each with the number of such
\* detections as its value (when the object list is new every such label is
\* there); a detection at exactly 0.5 contributes nothing.
C21_CountsOnlyAboveThreshold ==
    cnt_pc \in {"loop", "publish", "done"} =>
        LET n == obj_i - 1 IN
        /\ \A label \in DOMAIN counts :
              /\ counts[label] = Cardinality(Qualifying(label, n))
              /\ counts[label] >= 1
        /\ objects.is_new =>
              \A i \in 1..n :
                  objects.object_list[i].confidence > ConfidenceThreshold =>
                      LabelText(objects.object_list[i].raw_label) \in DOMAIN counts
        /\ cnt_pc = "done" =>
              /\ n = (IF objects.is_new THEN Len(objects.object_list) ELSE 0)
              /\ DOMAIN body.json = DOMAIN counts \cup {"timestamp"}
              /\ \A label \in DOMAIN counts : body.json[label] = counts[label]

\* A cycle with one person at exactly 0.5 and one just above has been
\* counted: the label has the value 1.
C21_Witness ==
    /\ cnt_pc = "done"
    /\ objects.is_new
    /\ objects.object_list =
          <<[raw_label |-> 0, confidence |-> ConfidenceThreshold, bbox_len |-> 4],
            [raw_label |-> 0, confidence |-> ConfidenceThreshold + 1, bbox_len |-> 4]>>
    /\ counts = DictPut(EmptyDict, LabelText(0), 1)

C23_MetricsHasPersonsAndVehicles ==
    body.status # 0 =>
        /\ body.status = 200
        /\ {"persons", "vehicles"} \subseteq DOMAIN body.json
        /\ \A k \in {"persons", "vehicles"} \cap DOMAIN body.json : body.json[k] >= 0

\* C24: the gateway's per-device health endpoint answers only with 200, 404
\* or 503, for every device response and under every interleaving with a
\* concurrent unregister; it never fails with an unhandled error.
C24_HealthAnswers200404503 ==
    \A r \in GwReqs :
        (gw_args[r].op = "health" /\ gw_resp[r] # 0) => gw_resp[r] \in {200, 404, 503}

\* C25: registering an id already in the registry returns 409 and leaves
\* the existing entry unchanged; a registration that names a device is
\* answered only with 200/201 or 409, and with 400 only when id or url is
\* missing.
C25_DuplicateRegistrationRefused ==
    /\ [](\A r \in GwReqs :
            (gw_args[r].op = "register" /\ gw_resp[r] # 0) =>
                /\ gw_found[r] => gw_resp[r] = 409
                /\ gw_args[r].data = "full" => gw_resp[r] \in {200, 201, 409}
                /\ gw_resp[r] = 400 => gw_args[r].data # "full")
    /\ [][\A r \in GwReqs :
            (gw_pc[r] = "reg_write" /\ gw_pc'[r] # "reg_write"
                /\ gw_args[r].id \in DOMAIN devices) => devices' = devices]_vars

\* C26: after a get_devices that the API answered, every further get_devices
\* without force_refresh within the TTL, with no remove_device or
\* clear_cache in between, makes no API request and returns the same list,
\* the empty list included.
C26_GetDevicesUsesCache ==
    [][(/\ ts_last'.seq # ts_last.seq
        /\ ts_last'.op = "get_devices"
        /\ ~ts_last'.force
        /\ last_ok.some
        /\ utcnow - last_ok.at < cache_ttl) =>
            (/\ ~ts_last'.requested
             /\ ts_last'.ret = [kind |-> "list", value |-> last_ok.list])]_vars

\* C27: device secrets follow a save/load/delete lifecycle: after
\* save_device_secret(d, s), load_device_secret(d) returns s; delete then
\* returns True; after that load returns None and a second delete returns
\* False; an operation on one device id never changes the secret stored
\* for another id.
C27_DeviceSecretLifecycle ==
    [][st_last'.seq # st_last.seq =>
        /\ (st_last.op = "save_device_secret" /\ st_last'.id = st_last.id) =>
              /\ st_last'.op = "load_device_secret" =>
                    st_last'.ret = [kind |-> "value", value |-> st_last.secret]
              /\ st_last'.op = "delete_device_secret" => st_last'.ret.kind = "true"
        /\ (/\ st_last.op = "delete_device_secret"
            /\ st_last.ret.kind = "true"
            /\ st_last'.id = st_last.id) =>
              /\ st_last'.op = "load_device_secret" => st_last'.ret = RetNone
              /\ st_last'.op = "delete_device_secret" => st_last'.ret.kind = "false"
        /\ st_last'.op = "save_device_secret" =>
              LoadSecret(storage_file', st_last'.id)
                  = [kind |-> "value", value |-> st_last'.secret]
        /\ st_last'.op \in {"save_device_secret", "load_device_secret",
                            "delete_device_secret"} =>
              \A e \in StorageIds \ {st_last'.id} :
                  LoadSecret(storage_file', e) = LoadSecret(storage_file, e)]_vars

\* A second delete of the same id has just returned False while the other
\* id's secret is still stored.
C27_Witness ==
    /\ st_last.op = "delete_device_secret"
    /\ st_last.ret.kind = "false"
    /\ st_last.id = "node-1"
    /\ storage_file.has_devices
    /\ LoadSecret(storage_file, "node-2") = [kind |-> "value", value |-> "deployment-token-xyz"]

\* C28: load_tailscale_config returns None whenever no Tailscale
\* configuration has been saved, in every storage state the storage
\* operations reach, and otherwise returns the api_key, tailnet and OAuth
\* fields of the last save_tailscale_config.
C28_LoadConfigNoneUntilSaved ==
    [][(st_last'.seq # st_last.seq /\ st_last'.op = "load_tailscale_config") =>
        IF ~last_config.some
        THEN st_last'.ret.kind = "none"
        ELSE LET c == last_config.config
                 base == DictPut(DictPut(EmptyDict,
                             "api_key", DictGet(c, "api_key", "")),
                             "tailnet", DictGet(c, "tailnet", ""))
                 with_secret == IF "oauth_client_secret" \in DOMAIN c
                                THEN DictPut(base, "oauth_client_secret",
                                             c["oauth_client_secret"])
                                ELSE base
                 expected == IF "oauth_client_id" \in DOMAIN c
                             THEN DictPut(with_secret, "oauth_client_id",
                                          c["oauth_client_id"])
                             ELSE with_secret
             IN  /\ st_last'.ret.kind = "config"
                 /\ st_last'.config = expected]_vars

\* Positions of grab_loop inside the success branch (lines 170-246) and
\* inside the failure and exception branches (lines 247-276).
SuccessPcs ==
    {"pace", "pacing", "lock_frame", "retrieve", "write_frame", "write_counts",
     "write_timestamp", "notify"}

FailedPcs ==
    {"sleep_retry", "threshold_close", "threshold_clear", "sleep_cooldown",
     "except_close", "except_clear", "sleep_except"}

\* C29: the threshold-triggered close happens only after 10 capture
\* failures with no successful capture in between: the counter grows by one
\* per failed grab only, every successful capture resets it to 0 and leaves
\* the camera open, and the threshold branch is entered only by the failed
\* grab that brings the counter to 10.
C29_ThresholdOnlyAfterTenFailures ==
    /\ [](/\ consecutive_failures \in 0..max_failures_before_reconnect
          /\ gpc \in {"threshold_close", "threshold_clear"} =>
                consecutive_failures = max_failures_before_reconnect)
    /\ [][/\ (gpc = "grab" /\ gpc' = "pace") =>
                (consecutive_failures' = 0 /\ camera' # "None" /\ opened')
          /\ consecutive_failures' # consecutive_failures =>
                \/ consecutive_failures' = 0
                \/ /\ consecutive_failures' = consecutive_failures + 1
                   /\ gpc = "grab"
                   /\ gpc' \in {"sleep_retry", "threshold_close"}
          /\ (gpc' = "threshold_close" /\ gpc # "threshold_close") =>
                /\ gpc = "grab"
                /\ consecutive_failures = max_failures_before_reconnect - 1
                /\ consecutive_failures' = max_failures_before_reconnect
          /\ (gpc = "grab" /\ gpc' = "sleep_retry") =>
                (camera' = camera /\ opened' = opened
                    /\ closes_since_open' = closes_since_open)]_vars

\* Ten failed grabs in a row after a published cycle reached the threshold.
C29_Witness ==
    /\ gpc = "threshold_close"
    /\ consecutive_failures = max_failures_before_reconnect
    /\ published = 1
    /\ opened

\* C30: a failed capture publishes nothing: it leaves the stored frame,
\* counts and timestamp unchanged and wakes no waiting consumer; the
\* snapshot changes only in cycles whose grab succeeded.
C30_FailedCapturePublishesNothing ==
    [][/\ (gpc' # gpc /\ gpc \notin SuccessPcs) =>
             /\ frame_data' = frame_data
             /\ published' = published
             /\ \A s \in Streams : spc[s] = "waiting" => spc'[s] = "waiting"
       /\ (gpc' \in SuccessPcs /\ gpc \notin SuccessPcs) =>
             (gpc = "grab" /\ gpc' = "pace" /\ consecutive_failures' = 0)
       /\ (gpc = "grab" /\ gpc' \notin {"grab", "pace"}) => gpc' \in FailedPcs
       /\ gpc \in FailedPcs => gpc' \notin SuccessPcs]_vars

\* A grab failed after one publish while a session waits on frame_cond.
C30_Witness ==
    /\ gpc = "sleep_retry"
    /\ published = 1
    /\ frame_data.frame.cycle = 1
    /\ \E s \in Streams : spc[s] = "waiting"

\* C39: save_tailscale_config changes only the configuration part of the
\* credential store: every device secret saved earlier is still returned by
\* load_device_secret after it; and save_device_secret and
\* delete_device_secret leave a saved configuration loadable and unchanged.
C39_ConfigAndSecretsIndependent ==
    [][st_last'.seq # st_last.seq =>
        /\ st_last'.op = "save_tailscale_config" =>
              \A e \in StorageIds :
                  LoadSecret(storage_file', e) = LoadSecret(storage_file, e)
        /\ (st_last'.op \in {"save_device_secret", "delete_device_secret"}
                /\ last_config.some) =>
              /\ LoadConfig(storage_file').kind = "config"
              /\ LoadConfig(storage_file') = LoadConfig(storage_file)]_vars

\* C31: within each successful cycle the steps run in the order capture,
\* count/annotate, publish, pacing sleep: the loop enters the pacing sleep
\* only from the publish of that cycle, after the waiting consumers were
\* woken.
C31_PacingSleepAfterPublish ==
    [][(gpc' = "pacing" /\ gpc # "pacing") => gpc = "notify"]_vars

\* C35: the capture loop holds neither frame_cond nor stream_lock while it
\* is in open(), in a reconnect backoff or cooldown, or in its pacing sleep.
C35_NoLockHeldWhileBlocked ==
    (gpc \in Sleeps \cup {"init", "pacing"}) =>
        (frame_cond # GrabOwner /\ stream_lock # GrabOwner)

\* C33: in every published snapshot the counts match the annotations on
\* the image of the same cycle: for each label the count equals the number
\* of boxes of that label drawn, for every shape of bounding box.
C33_CountsMatchDrawnBoxes ==
    cnt_pc = "done" =>
        \A label \in DOMAIN counts \cup DOMAIN drawn :
            DictGet(counts, label, 0) = DictGet(drawn, label, 0)

\* C34: the snapshots emitted by one stream session are strictly increasing
\* in publish order: a session never emits a snapshot older than one it
\* already emitted and never emits the same published snapshot twice.
C34_EmittedStrictlyIncreasing ==
    [][\A s \in Streams :
          (spc[s] = "encode" /\ spc'[s] = "yield") =>
              /\ last_emitted'[s] = local_frame[s].cycle
              /\ last_emitted'[s] > last_emitted[s]
              /\ last_emitted'[s] <= published]_vars

\* A session that has emitted snapshot 1 holds snapshot 2, about to emit it.
C34_Witness ==
    \E s \in Streams :
        /\ spc[s] = "encode"
        /\ last_emitted[s] = 1
        /\ local_frame[s] = [cycle |-> 2, img |-> TRUE]

\* C37: at the start of every capture-loop cycle the consecutive-failure
\* counter is between 0 and 9; it is 0 right after every threshold close
\* and after every successful reconnect; it never reaches the threshold
\* without the close happening in that same cycle.
C37_CounterBelowThresholdAtCycleStart ==
    /\ [](/\ gpc = "top" =>
                consecutive_failures \in 0..(max_failures_before_reconnect - 1)
          /\ gpc = "sleep_cooldown" => (consecutive_failures = 0 /\ camera = "None")
          /\ consecutive_failures >= max_failures_before_reconnect =>
                /\ consecutive_failures = max_failures_before_reconnect
                /\ gpc \in {"threshold_close", "threshold_clear"})
    /\ [][/\ (gpc = "init" /\ gpc' = "grab") => consecutive_failures' = 0
          /\ (gpc = "threshold_close" /\ gpc' # gpc) =>
                (gpc' = "threshold_clear" /\ ~opened')
          /\ (gpc = "threshold_clear" /\ gpc' # gpc) =>
                (gpc' = "sleep_cooldown" /\ consecutive_failures' = 0)]_vars

\* The cooldown sleep right after a threshold close, counter back at 0.
C37_Witness ==
    /\ gpc = "sleep_cooldown"
    /\ fault.kind = "threshold"
    /\ consecutive_failures = 0
    /\ camera = "None"

\* C38: no thread ever holds frame_cond and stream_lock at the same time,
\* and the capture loop, the stream sessions and the /metrics requests
\* never deadlock: whoever holds a lock can take its next step, and in
\* every state of the running program some thread can take a step.
C38_NoNestedLocksNoDeadlock ==
    /\ frame_cond = NoOwner \/ frame_cond # stream_lock
    /\ stream_lock = GrabOwner => (gpc = "pacing" /\ ENABLED GrabPaceEnd)
    /\ frame_cond = GrabOwner =>
          /\ gpc \in {"retrieve", "write_frame", "write_counts", "write_timestamp", "notify"}
          /\ ENABLED GrabLoopFewFaults
    /\ \A m \in MetricsReqs : frame_cond = MetricsOwner(m) => ENABLED Metrics(m)
    /\ \A s \in Streams : frame_cond # StreamOwner(s) /\ stream_lock # StreamOwner(s)
    /\ main = "exited" \/ ENABLED NextReaders

\* The capture loop sleeps with stream_lock while a /metrics request holds
\* frame_cond and the stream session waits for the next frame.
C38_Witness ==
    /\ stream_lock = GrabOwner
    /\ frame_cond = MetricsOwner(1)
    /\ spc[1] = "waiting"

\* C32: the capture loop never terminates and never stays stopped with the
\* frame lock held: every exception raised inside a cycle is absorbed, the
\* frame lock is released, and the loop goes on to a later cycle.
C32_ExceptionsAbsorbed ==
    /\ [](gpc \in FailedPcs => (frame_cond # GrabOwner /\ stream_lock # GrabOwner))
    /\ [](main \in {"thread", "serving"} => gpc # "idle")
    /\ (fault.kind = "exception") ~> (gpc = "top" /\ frame_cond # GrabOwner)

\* An exception was raised inside `with frame_cond` while retrieving: the
\* handler is running and the lock is free.
C32_Witness ==
    /\ gpc = "except_close"
    /\ fault.kind = "exception"
    /\ last_cam_op = "retrieve"
    /\ frame_cond = NoOwner
    /\ published = 1

====
